---- MODULE Spec2Model ----
(***************************************************************************)
(* superagente86: newsletter analysis and report rendering.                *)
(*                                                                         *)
(* The model follows AnalysisAgent.analyze (grouping, item construction,   *)
(* classification, priority, deduplication) and the two report renderers   *)
(* of DeliveryAgent.  Texts are TLA+ strings and the Python string         *)
(* operations used by the code (lower, strip, split, startswith, `in`)     *)
(* are computed character by character.                                    *)
(***************************************************************************)
EXTENDS Integers, Sequences, FiniteSets, TLC

VARIABLES pc, messages, items, items0, sorted_items, pos, seen_topics,
          unique_items, decisions, merges, report, preview, doc,
          fragments, once, twice,
          config, model, attempts, last_error, response_text,
          review_feedback, doc_id, shortcut_path, calls, state, run_result,
          exception,
          api_call, message_ids, got, attempt, executed, slept, wait_time,
          caught, raised

\* the text handed to a normalizer and its results
text_vars == <<fragments, once, twice>>

\* the configuration and the locals of Pipeline.run and ReviewAgent
run_vars == <<config, model, attempts, last_error, response_text,
              review_feedback, doc_id, shortcut_path, calls, state,
              run_result, exception>>

\* the Gmail API call that GmailAgent is retrying and what it has done so far
retry_vars == <<api_call, message_ids, got, attempt, executed, slept,
                wait_time, caught, raised>>

vars == <<pc, messages, items, items0, sorted_items, pos, seen_topics,
          unique_items, decisions, merges, report, preview, doc,
          text_vars, run_vars, retry_vars>>

(***************************************************************************)
(* Bounds                                                                  *)
(***************************************************************************)
MaxMessages == 3

\* The most messages that one run of the pipeline fetches
MaxRunMessages == 2

\* The longest subject, in words, of the message that the item
\* specification composes.
MaxWords == 3

\* The most fragments a text handed to a normalizer is made of.
MaxFragments == 3

\* The most message ids that the list call returns or mark_as_read is given.
MaxIds == 2

(***************************************************************************)
(* Python string operations                                                *)
(***************************************************************************)
UpperAlphabet == "ABCDEFGHIJKLMNOPQRSTUVWXYZ"

LowerAlphabet == "abcdefghijklmnopqrstuvwxyz"

CharAt(s, i) == SubSeq(s, i, i)

IsSpace(c) == c \in {" ", "\t", "\n", "\r"}

\* the lower-case letter of each upper-case letter
ToLower ==
    [c \in {CharAt(UpperAlphabet, i) : i \in 1..26} |->
        CharAt(LowerAlphabet, CHOOSE i \in 1..26 : CharAt(UpperAlphabet, i) = c)]

LowerChar(c) == IF c \in DOMAIN ToLower THEN ToLower[c] ELSE c

\* the element of a set of one element; {e(x) : x \in {v}} computes v once
\* and then e with x bound to its value
Only(S) == CHOOSE x \in S : TRUE

\* str.lower(), computed on the four quarters of the string
RECURSIVE lower(_)
lower(s) ==
    IF Len(s) <= 1 THEN LowerChar(s)
    ELSE IF Len(s) <= 3 THEN LowerChar(SubSeq(s, 1, 1)) \o lower(SubSeq(s, 2, Len(s)))
    ELSE Only({lower(SubSeq(x, 1, q)) \o lower(SubSeq(x, q + 1, 2 * q))
                  \o lower(SubSeq(x, 2 * q + 1, 3 * q)) \o lower(SubSeq(x, 3 * q + 1, Len(x))) :
               x \in {s}, q \in {Len(s) \div 4}})

\* str.strip(): from the first to the last non-whitespace character
strip(s) ==
    LET non_space == {i \in 1..Len(s) : ~IsSpace(CharAt(s, i))}
    IN IF non_space = {} THEN ""
       ELSE SubSeq(s, CHOOSE i \in non_space : \A k \in non_space : i <= k,
                      CHOOSE i \in non_space : \A k \in non_space : k <= i)

startswith(s, prefix) ==
    Len(s) >= Len(prefix) /\ SubSeq(s, 1, Len(prefix)) = prefix

\* Python's `sub in s` on strings
contains(s, sub) ==
    \E i \in 1..(Len(s) - Len(sub) + 1) : SubSeq(s, i, i + Len(sub) - 1) = sub

\* str.split() without arguments: the maximal runs of non-whitespace
\* characters, in order
split(s) ==
    LET starts == {i \in 1..Len(s) :
                      /\ ~IsSpace(CharAt(s, i))
                      /\ i = 1 \/ IsSpace(CharAt(s, i - 1))}
        ends   == {i \in 1..Len(s) :
                      /\ ~IsSpace(CharAt(s, i))
                      /\ i = Len(s) \/ IsSpace(CharAt(s, i + 1))}
        Nth(S, n) == CHOOSE i \in S : Cardinality({k \in S : k <= i}) = n
    IN [n \in 1..Cardinality(starts) |-> SubSeq(s, Nth(starts, n), Nth(ends, n))]

\* sep.join(words), computed on the two halves of the list
RECURSIVE join(_, _)
join(sep, words) ==
    IF words = <<>> THEN ""
    ELSE IF Len(words) = 1 THEN words[1]
    ELSE Only({join(sep, SubSeq(ws, 1, Len(ws) \div 2)) \o sep
                  \o join(sep, SubSeq(ws, Len(ws) \div 2 + 1, Len(ws))) :
               ws \in {words}})

Range(f) == {f[i] : i \in DOMAIN f}

\* list.sort(key=...) / sorted(key=...): stable insertion of each element
\* after the elements whose key is not greater
RECURSIVE StableSortBy(_, _)
StableSortBy(seq, key) ==
    IF seq = <<>> THEN <<>>
    ELSE LET n    == Len(seq)
             rest == StableSortBy(SubSeq(seq, 1, n - 1), key)
             x    == seq[n]
             k    == Cardinality({i \in 1..Len(rest) : key[rest[i]] <= key[x]})
         IN SubSeq(rest, 1, k) \o <<x>> \o SubSeq(rest, k + 1, Len(rest))

(***************************************************************************)
(* Regular-expression substitution (re.sub) on ASCII text.  A pattern is   *)
(* an operator M(t, i): the length of its match in t at position i, 0 if   *)
(* there is none (no pattern used here matches the empty string).  For a   *)
(* pattern compiled with re.IGNORECASE, t is the lower-cased text and the  *)
(* literals are written in lower case.                                     *)
(***************************************************************************)
At(t, i) == IF i >= 1 /\ i <= Len(t) THEN SubSeq(t, i, i) ELSE ""

Literal(t, i, lit) ==
    IF i >= 1 /\ i + Len(lit) - 1 <= Len(t) /\ SubSeq(t, i, i + Len(lit) - 1) = lit
    THEN Len(lit) ELSE 0

\* (?:a|b|...): the first alternative, in order, found at position i
Alternatives(t, i, lits) ==
    LET found == {k \in 1..Len(lits) : Literal(t, i, lits[k]) > 0}
    IN IF found = {} THEN 0
       ELSE Len(lits[CHOOSE k \in found : \A other \in found : k <= other])

\* x?: 1 if the character at i is c, else 0
Optional(t, i, c) == IF At(t, i) = c THEN 1 ELSE 0

\* [chars]*: the number of characters from position i on that are in chars
SpanIn(t, i, chars) ==
    LET stops == {j \in i..Len(t) : SubSeq(t, j, j) \notin chars}
    IN IF stops = {} THEN Len(t) - i + 1
       ELSE (CHOOSE j \in stops : \A k \in stops : j <= k) - i

\* [^chars]*: the number of characters from position i on that are not in chars
SpanNot(t, i, chars) ==
    LET stops == {j \in i..Len(t) : SubSeq(t, j, j) \in chars}
    IN IF stops = {} THEN Len(t) - i + 1
       ELSE (CHOOSE j \in stops : \A k \in stops : j <= k) - i

\* \s
SpaceChars == {" ", "\t", "\n", "\r"}

\* \w
WordChars ==
    {SubSeq(LowerAlphabet, i, i) : i \in 1..26} \cup {SubSeq(UpperAlphabet, i, i) : i \in 1..26}
    \cup {"0", "1", "2", "3", "4", "5", "6", "7", "8", "9", "_"}

\* [|:;,]
PunctChars == {"|", ":", ";", ","}

\* the first position from i on where lit is found, 0 if nowhere
Find(t, i, lit) ==
    LET found == {j \in i..(Len(t) - Len(lit) + 1) : SubSeq(t, j, j + Len(lit) - 1) = lit}
    IN IF found = {} THEN 0 ELSE CHOOSE j \in found : \A k \in found : j <= k

\* head[^.]*\.?  where head has matched `head` characters at i
ToPeriod(t, i, head) ==
    IF head = 0 THEN 0
    ELSE LET n == SpanNot(t, i + head, {"."})
         IN head + n + Optional(t, i + head + n, ".")

(***************************************************************************)
(* analysis_agent.py: _clean_text.  The text of the model is ASCII, so the *)
(* two substitutions on zero-width characters and on runs of bullet        *)
(* characters find nothing and are left out.                               *)
(***************************************************************************)
\* View image:.*?(?:Caption:|$)  with DOTALL: up to the first "Caption:",
\* else up to the end of the text ($ also matches before a final newline)
ViewImage(t, i) ==
    LET head == Literal(t, i, "view image:")
        cap  == Find(t, i + head, "caption:")
    IN IF head = 0 THEN 0
       ELSE IF cap # 0 THEN cap + 8 - i
       ELSE IF At(t, Len(t)) = "\n" THEN Len(t) - i ELSE Len(t) - i + 1

\* Follow image link:.*?(?:\s|$)
FollowImageLink(t, i) ==
    LET head == Literal(t, i, "follow image link:")
        n    == SpanNot(t, i + head, SpaceChars)
    IN IF head = 0 THEN 0
       ELSE head + n + (IF i + head + n <= Len(t) THEN 1 ELSE 0)

\* \[image\]|\[img\]|\(image\)|Image:
ImagePlaceholder(t, i) == Alternatives(t, i, <<"[image]", "[img]", "(image)", "image:">>)

WelcomeBack(t, i) == ToPeriod(t, i, Literal(t, i, "welcome back"))

\* Welcome,? \w+[^.]*\.?
WelcomeName(t, i) ==
    LET w    == Literal(t, i, "welcome")
        c    == Optional(t, i + w, ",")
        head == w + c + 1
    IN IF w > 0 /\ At(t, i + w + c) = " " /\ At(t, i + head) \in WordChars
       THEN ToPeriod(t, i, head) ELSE 0

\* Happy \w+day[^.]*\.?  : "day" ends a run of word characters that starts
\* after "Happy " and has at least one character before "day"
HappyDay(t, i) ==
    LET head == Literal(t, i, "happy ")
        run  == SpanIn(t, i + head, WordChars)
    IN IF head > 0 /\ \E k \in 1..(run - 3) : SubSeq(t, i + head + k, i + head + k + 2) = "day"
       THEN ToPeriod(t, i, head) ELSE 0

\* Good (?:morning|afternoon|evening)[^.]*\.?
GoodMorning(t, i) ==
    LET head == Literal(t, i, "good ")
        alt  == Alternatives(t, i + head, <<"morning", "afternoon", "evening">>)
    IN IF head > 0 /\ alt > 0 THEN ToPeriod(t, i, head + alt) ELSE 0

HiThere(t, i) == ToPeriod(t, i, Literal(t, i, "hi there"))

Hello(t, i) == ToPeriod(t, i, Literal(t, i, "hello"))

Hey(t, i) == ToPeriod(t, i, Literal(t, i, "hey"))

\* Here'?s? (?:what|today)[^.]*\.?
HeresWhat(t, i) ==
    LET h    == Literal(t, i, "here")
        q    == Optional(t, i + h, "'")
        s    == Optional(t, i + h + q, "s")
        head == h + q + s + 1
        alt  == Alternatives(t, i + head, <<"what", "today">>)
    IN IF h > 0 /\ At(t, i + h + q + s) = " " /\ alt > 0
       THEN ToPeriod(t, i, head + alt) ELSE 0

\* In this (?:issue|edition|newsletter)[^.]*\.?
InThisIssue(t, i) ==
    LET head == Literal(t, i, "in this ")
        alt  == Alternatives(t, i + head, <<"issue", "edition", "newsletter">>)
    IN IF head > 0 /\ alt > 0 THEN ToPeriod(t, i, head + alt) ELSE 0

TodayWe(t, i) == ToPeriod(t, i, Literal(t, i, "today we"))

ThisWeek(t, i) == ToPeriod(t, i, Literal(t, i, "this week"))

\* variant: only the phrase itself is matched, not the text up to the period
CallToAction_phrase_only(t, i) ==
    Alternatives(t, i,
        <<"sign up", "subscribe", "unsubscribe", "click here", "read more",
          "view in browser", "advertise", "forward this", "refer a friend",
          "share this", "sponsor">>)

\* (?:Sign Up|Subscribe|Unsubscribe|Click here|...|Sponsor)[^.]*\.?
CallToAction(t, i) ==
    ToPeriod(t, i, Alternatives(t, i,
        <<"sign up", "subscribe", "unsubscribe", "click here", "read more",
          "view in browser", "advertise", "forward this", "refer a friend",
          "share this", "sponsor">>))

\* (?:Share|Tweet|Post|Like|Follow us|Join us)[^.]{0,30}
ShareTweet(t, i) ==
    LET head == Alternatives(t, i, <<"share", "tweet", "post", "like", "follow us", "join us">>)
        n    == SpanNot(t, i + head, {"."})
    IN IF head = 0 THEN 0 ELSE head + (IF n > 30 THEN 30 ELSE n)

\* https?://\S*
HttpUrl(t, i) ==
    LET h    == Literal(t, i, "http")
        s    == Optional(t, i + h, "s")
        head == h + s + 3
    IN IF h > 0 /\ Literal(t, i + h + s, "://") > 0
       THEN head + SpanNot(t, i + head, SpaceChars) ELSE 0

\* www\.\S*
WwwUrl(t, i) ==
    LET head == Literal(t, i, "www.")
    IN IF head = 0 THEN 0 ELSE head + SpanNot(t, i + head, SpaceChars)

\* \(?\s*Caption:\s*\)?
CaptionMark(t, i) ==
    LET Rest(k) == LET sp  == SpanIn(t, k, SpaceChars)
                       cap == Literal(t, k + sp, "caption:")
                       tr  == SpanIn(t, k + sp + cap, SpaceChars)
                   IN IF cap = 0 THEN 0
                      ELSE sp + cap + tr + Optional(t, k + sp + cap + tr, ")")
    IN IF At(t, i) = "(" /\ Rest(i + 1) > 0 THEN 1 + Rest(i + 1) ELSE Rest(i)

\* Refer\s*\|\s*Tldr\s*\|\s*Advertise
ReferTldrAdvertise(t, i) ==
    LET a  == Literal(t, i, "refer")
        s1 == SpanIn(t, i + a, SpaceChars)
        b  == Literal(t, i + a + s1, "|")
        s2 == SpanIn(t, i + a + s1 + b, SpaceChars)
        c  == Literal(t, i + a + s1 + b + s2, "tldr")
        s3 == SpanIn(t, i + a + s1 + b + s2 + c, SpaceChars)
        d  == Literal(t, i + a + s1 + b + s2 + c + s3, "|")
        s4 == SpanIn(t, i + a + s1 + b + s2 + c + s3 + d, SpaceChars)
        e  == Literal(t, i + a + s1 + b + s2 + c + s3 + d + s4, "advertise")
    IN IF a > 0 /\ b > 0 /\ c > 0 /\ d > 0 /\ e > 0
       THEN a + s1 + b + s2 + c + s3 + d + s4 + e ELSE 0

\* \|\s*Advertise
BarAdvertise(t, i) ==
    LET b  == Literal(t, i, "|")
        sp == SpanIn(t, i + b, SpaceChars)
        a  == Literal(t, i + b + sp, "advertise")
    IN IF b > 0 /\ a > 0 THEN b + sp + a ELSE 0

\* [\r\n\t]+
LineBreaks(t, i) == SpanIn(t, i, {"\r", "\n", "\t"})

\* \s+
Whitespace(t, i) == SpanIn(t, i, SpaceChars)

\* \s[|:;,]+\s
OrphanPunctuation(t, i) ==
    LET n == SpanIn(t, i + 1, PunctChars)
    IN IF IsSpace(At(t, i)) /\ n > 0 /\ IsSpace(At(t, i + 1 + n)) THEN n + 2 ELSE 0

\* \(\s*\)  and  \[\s*\]
EmptyBrackets(t, i, open, close) ==
    LET sp == SpanIn(t, i + 1, SpaceChars)
    IN IF At(t, i) = open /\ At(t, i + 1 + sp) = close THEN sp + 2 ELSE 0

EmptyParens(t, i) == EmptyBrackets(t, i, "(", ")")

EmptySquare(t, i) == EmptyBrackets(t, i, "[", "]")

(***************************************************************************)
(* gmail_agent.py: _html_to_clean_text                                     *)
(***************************************************************************)
\* <tag[^>]*>.*?</tag>  with DOTALL, for tag = script, style
Element(t, i, open, close) ==
    LET head == Literal(t, i, open)
        n    == SpanNot(t, i + head, {">"})
        end  == Find(t, i + head + n + 1, close)
    IN IF head > 0 /\ At(t, i + head + n) = ">" /\ end # 0
       THEN end + Len(close) - i ELSE 0

ScriptElement(t, i) == Element(t, i, "<script", "</script>")

StyleElement(t, i) == Element(t, i, "<style", "</style>")

\* </h[1-6]>
HeadingEnd(t, i) ==
    IF Literal(t, i, "</h") > 0 /\ At(t, i + 3) \in {"1", "2", "3", "4", "5", "6"}
       /\ At(t, i + 4) = ">"
    THEN 5 ELSE 0

DivEnd(t, i) == Literal(t, i, "</div>")

ParagraphEnd(t, i) == Literal(t, i, "</p>")

ItemEnd(t, i) == Literal(t, i, "</li>")

TableEnd(t, i) == Literal(t, i, "</table>")

RowEnd(t, i) == Literal(t, i, "</tr>")

CellEnd(t, i) == Literal(t, i, "</td>")

\* <[^>]+>
Tag(t, i) ==
    LET n == SpanNot(t, i + 1, {">"})
    IN IF At(t, i) = "<" /\ n >= 1 /\ At(t, i + 1 + n) = ">" THEN n + 2 ELSE 0

Nbsp(t, i) == Literal(t, i, "&nbsp;")

Lt(t, i) == Literal(t, i, "&lt;")

Gt(t, i) == Literal(t, i, "&gt;")

Amp(t, i) == Literal(t, i, "&amp;")

Quot(t, i) == Literal(t, i, "&quot;")

Apos(t, i) == Literal(t, i, "&#39;")

\* the pattern of each substitution: 1..26 those of _clean_text (4..14 the
\* loop over intro_patterns) and 27..42 those of _html_to_clean_text (37..42
\* the str.replace of the entities), in the order of the code
Match(pattern, t, i) ==
    CASE pattern = 1  -> ViewImage(t, i)
      [] pattern = 2  -> FollowImageLink(t, i)
      [] pattern = 3  -> ImagePlaceholder(t, i)
      [] pattern = 4  -> WelcomeBack(t, i)
      [] pattern = 5  -> WelcomeName(t, i)
      [] pattern = 6  -> HappyDay(t, i)
      [] pattern = 7  -> GoodMorning(t, i)
      [] pattern = 8  -> HiThere(t, i)
      [] pattern = 9  -> Hello(t, i)
      [] pattern = 10 -> Hey(t, i)
      [] pattern = 11 -> HeresWhat(t, i)
      [] pattern = 12 -> InThisIssue(t, i)
      [] pattern = 13 -> TodayWe(t, i)
      [] pattern = 14 -> ThisWeek(t, i)
      [] pattern = 15 -> CallToAction(t, i)
      [] pattern = 16 -> ShareTweet(t, i)
      [] pattern = 17 -> HttpUrl(t, i)
      [] pattern = 18 -> WwwUrl(t, i)
      [] pattern = 19 -> CaptionMark(t, i)
      [] pattern = 20 -> ReferTldrAdvertise(t, i)
      [] pattern = 21 -> BarAdvertise(t, i)
      [] pattern = 22 -> LineBreaks(t, i)
      [] pattern = 23 -> Whitespace(t, i)
      [] pattern = 24 -> OrphanPunctuation(t, i)
      [] pattern = 25 -> EmptyParens(t, i)
      [] pattern = 26 -> EmptySquare(t, i)
      [] pattern = 27 -> ScriptElement(t, i)
      [] pattern = 28 -> StyleElement(t, i)
      [] pattern = 29 -> DivEnd(t, i)
      [] pattern = 30 -> ParagraphEnd(t, i)
      [] pattern = 31 -> HeadingEnd(t, i)
      [] pattern = 32 -> ItemEnd(t, i)
      [] pattern = 33 -> TableEnd(t, i)
      [] pattern = 34 -> RowEnd(t, i)
      [] pattern = 35 -> CellEnd(t, i)
      [] pattern = 36 -> Tag(t, i)
      [] pattern = 37 -> Nbsp(t, i)
      [] pattern = 38 -> Lt(t, i)
      [] pattern = 39 -> Gt(t, i)
      [] pattern = 40 -> Amp(t, i)
      [] pattern = 41 -> Quot(t, i)
      [] pattern = 42 -> Apos(t, i)

\* the substitutions compiled with re.IGNORECASE
IgnoreCase(pattern) == pattern \in (1..16) \cup (19..21) \cup (27..35)

\* the replacement of each substitution; that of a block-level end tag is
\* the pattern's own text and a newline
Replacement(pattern) ==
    CASE pattern \in 22..24 -> " "
      [] pattern = 29 -> "</div>\n"
      [] pattern = 30 -> "</p>\n"
      [] pattern = 31 -> "</h[1-6]>\n"
      [] pattern = 32 -> "</li>\n"
      [] pattern = 33 -> "</table>\n"
      [] pattern = 34 -> "</tr>\n"
      [] pattern = 35 -> "</td>\n"
      [] pattern = 37 -> " "
      [] pattern = 38 -> "<"
      [] pattern = 39 -> ">"
      [] pattern = 40 -> "&"
      [] pattern = 41 -> "\""
      [] pattern = 42 -> "'"
      [] OTHER -> ""

\* re.sub on the characters lo..hi of s, one half after the other: the
\* matches are found left to right in t (s or its lower-cased form) and do
\* not overlap.  done = <<the replaced text of the characters before lo, the
\* first position not covered by a match before lo>>; gives the same pair
\* for the characters up to hi.
RECURSIVE Scan(_, _, _, _, _, _, _)
Scan(s, t, lo, hi, done, pattern, repl) ==
    IF lo < hi
    THEN Only({Scan(s, t, (lo + hi) \div 2 + 1, hi, left, pattern, repl) :
               left \in {Scan(s, t, lo, (lo + hi) \div 2, done, pattern, repl)}})
    ELSE IF lo < done[2] THEN done
    ELSE Only({IF n > 0 THEN <<done[1] \o repl, lo + n>>
               ELSE <<done[1] \o SubSeq(s, lo, lo), done[2]>> :
               n \in {Match(pattern, t, lo)}})

\* re.sub(pattern, repl, s)
re_sub(s, t, pattern, repl) ==
    IF s = "" THEN "" ELSE Scan(s, t, 1, Len(s), <<"", 1>>, pattern, repl)[1]

\* text = re.sub(...) for the substitutions from first to last, one after
\* the other: those of the first half of the range, then those of the second
RECURSIVE Substitute(_, _, _)
Substitute(text, first, last) ==
    IF first = last
    THEN Only({re_sub(text, t, first, Replacement(first)) :
               t \in {IF IgnoreCase(first) THEN lower(text) ELSE text}})
    ELSE Only({Substitute(half, (first + last) \div 2 + 1, last) :
               half \in {Substitute(text, first, (first + last) \div 2)}})

_clean_text(text) == Only({strip(Substitute(raw, 1, 26)) : raw \in {text}})

\* html.split('\n')
SplitLines(s) ==
    LET breaks == {i \in 1..Len(s) : SubSeq(s, i, i) = "\n"}
        Nth(n) == IF n = 0 THEN 0
                  ELSE IF n > Cardinality(breaks) THEN Len(s) + 1
                  ELSE CHOOSE i \in breaks : Cardinality({k \in breaks : k <= i}) = n
    IN [n \in 1..(Cardinality(breaks) + 1) |-> SubSeq(s, Nth(n - 1) + 1, Nth(n) - 1)]

_html_to_clean_text(html) ==
    Only({join("\n", SelectSeq([n \in DOMAIN lines |-> strip(lines[n])],
                               LAMBDA line : line # "")) :
          lines \in {SplitLines(decoded) : decoded \in {Substitute(raw, 27, 42) : raw \in {html}}}})

(***************************************************************************)
(* Messages the mailbox can hold (GmailMessage fields read by the          *)
(* analysis).  prompt and company give the outcome of the regular-         *)
(* expression extractors _extract_prompt and _extract_company_news on the  *)
(* message text.                                                           *)
(***************************************************************************)
Msg(subject, snippet, body, sender, at, links, prompt, company) ==
    [subject |-> subject, snippet |-> snippet, body_text |-> body,
     sender |-> sender, received_at |-> at, links |-> links,
     prompt |-> prompt, company |-> company]

MessagePool ==
    { Msg("Series B funding round for Acme AI", "Acme closes round", "", "TLDR <t@x>", 2, <<>>, FALSE, FALSE),
      Msg("Series B funding round for Acme AI", "", "", "The Rundown <r@x>", 1, <<>>, FALSE, FALSE),
      Msg("New robot unveiled by Boston Dynamics", "", "", "Robo Weekly <w@x>", 3, <<>>, FALSE, FALSE),
      Msg("Re: Boston Dynamics humanoid ships to warehouse", "Research paper study benchmark", "", "Robo Weekly <w@x>", 1, <<>>, FALSE, FALSE),
      Msg("Boston Dynamics funding", "", "", "TLDR <t@x>", 2, <<>>, FALSE, FALSE),
      Msg("AI news roundup", "", "Prompt: write a haiku", "TLDR <t@x>", 1, <<>>, TRUE, FALSE),
      Msg("AI funding update", "", "", "The Rundown <r@x>", 2, <<>>, FALSE, FALSE),
      Msg("The  roundup", "", "", "Ben <b@x>", 1, <<"https://youtu.be/x">>, FALSE, FALSE),
      Msg("Daily AI newsletter", "", "Google partners with Acme Labs", "Ben <b@x>", 2, <<>>, FALSE, TRUE),
      Msg("New model", "", "", "TLDR <t@x>", 1, <<>>, FALSE, FALSE),
      Msg("OpenAI launches", "", "OpenAI launches a plugin API SDK tool", "The Rundown <r@x>", 1, <<>>, FALSE, TRUE),
      Msg("OpenAI launches new model today", "", "", "Ben <b@x>", 3, <<>>, FALSE, FALSE),
      Msg("FWD: OpenAI launches new multimodal model weights today", "", "", "TLDR <t@x>", 2, <<>>, FALSE, FALSE) }

None == "None"

(***************************************************************************)
(* analysis_agent.py: categories, grouping, item construction              *)
(***************************************************************************)
CategoryIds == <<"new_models", "research", "robots", "funding", "apps", "general">>

Keywords(cat_id) ==
    CASE cat_id = "new_models" ->
           <<"gpt-5", "gpt-4", "claude", "gemini", "llama", "mistral", "model release",
             "new model", "launches", "released", "announced", "upgrade", "version",
             "multimodal", "foundation model", "weights", "open source", "fine-tun">>
      [] cat_id = "research" ->
           <<"paper", "arxiv", "research", "study", "breakthrough", "discovered",
             "technique", "algorithm", "benchmark", "state-of-the-art", "sota",
             "training", "inference", "reasoning", "evaluation", "dataset">>
      [] cat_id = "robots" ->
           <<"robot", "humanoid", "boston dynamics", "figure", "optimus", "tesla bot",
             "autonomous", "embodied", "manipulation", "locomotion", "actuator",
             "warehouse", "industrial robot", "cobot">>
      [] cat_id = "funding" ->
           <<"raised", "funding", "series", "valuation", "acquisition", "acquired",
             "ipo", "merger", "billion", "million", "investor", "venture", "startup">>
      [] cat_id = "apps" ->
           <<"app", "tool", "plugin", "extension", "api", "sdk", "platform",
             "saas", "product", "feature", "integration", "workflow", "automation">>
      [] OTHER -> <<>>

\* score = sum(1 for kw in cat_info["keywords"] if kw in text_lower)
KeywordScore(cat_id, text_lower) ==
    Cardinality({k \in DOMAIN Keywords(cat_id) : contains(text_lower, Keywords(cat_id)[k])})

\* variant: among equal scores the last category wins
RECURSIVE MaxScored_last_max(_, _, _, _)
MaxScored_last_max(text_lower, c, best, best_score) ==
    IF c > Len(CategoryIds) THEN best
    ELSE IF CategoryIds[c] = "general"
         THEN MaxScored_last_max(text_lower, c + 1, best, best_score)
         ELSE LET score == KeywordScore(CategoryIds[c], text_lower)
              IN IF score > 0 /\ score >= best_score
                 THEN MaxScored_last_max(text_lower, c + 1, CategoryIds[c], score)
                 ELSE MaxScored_last_max(text_lower, c + 1, best, best_score)

\* the loop over CATEGORIES followed by max(scores, key=scores.get): only
\* positive scores enter scores, and max returns the first key, in CATEGORIES
\* order, that has the largest score
RECURSIVE MaxScored(_, _, _, _)
MaxScored(text_lower, c, best, best_score) ==
    IF c > Len(CategoryIds) THEN best
    ELSE IF CategoryIds[c] = "general"
         THEN MaxScored(text_lower, c + 1, best, best_score)
         ELSE LET score == KeywordScore(CategoryIds[c], text_lower)
              IN IF score > best_score
                 THEN MaxScored(text_lower, c + 1, CategoryIds[c], score)
                 ELSE MaxScored(text_lower, c + 1, best, best_score)

_classify_category(text) == MaxScored(lower(text), 1, "general", 0)

RECURSIVE RemovePrefixes(_, _)
RemovePrefixes(normalized, prefixes) ==
    IF prefixes = <<>> THEN normalized
    ELSE RemovePrefixes(
           IF startswith(normalized, Head(prefixes))
           THEN strip(SubSeq(normalized, Len(Head(prefixes)) + 1, Len(normalized)))
           ELSE normalized,
           Tail(prefixes))

_normalize_topic(subject) ==
    LET normalized == RemovePrefixes(lower(strip(subject)), <<"re:", "fw:", "fwd:">>)
        joined     == join(" ", split(normalized))
    IN IF joined = "" THEN "(no subject)" ELSE joined

\* variant: a message with a topic already seen replaces the messages of the topic
GroupInsert_replace(grouped, topic, i) ==
    IF \E g \in DOMAIN grouped : grouped[g].topic = topic
    THEN [g \in DOMAIN grouped |->
            IF grouped[g].topic = topic
            THEN [grouped[g] EXCEPT !.msgs = <<i>>]
            ELSE grouped[g]]
    ELSE Append(grouped, [topic |-> topic, msgs |-> <<i>>])

\* grouped: the dict as a sequence of entries in insertion order
GroupInsert(grouped, topic, i) ==
    IF \E g \in DOMAIN grouped : grouped[g].topic = topic
    THEN [g \in DOMAIN grouped |->
            IF grouped[g].topic = topic
            THEN [grouped[g] EXCEPT !.msgs = Append(@, i)]
            ELSE grouped[g]]
    ELSE Append(grouped, [topic |-> topic, msgs |-> <<i>>])

RECURSIVE GroupUpTo(_, _)
GroupUpTo(msgs, n) ==
    IF n = 0 THEN <<>>
    ELSE GroupInsert(GroupUpTo(msgs, n - 1), _normalize_topic(msgs[n].subject), n)

\* each group is sorted by received_at, newest first; reverse=True keeps the
\* original order of messages with equal timestamps
_group_by_topic(msgs) ==
    LET grouped == GroupUpTo(msgs, Len(msgs))
        newest  == [i \in DOMAIN msgs |-> 0 - msgs[i].received_at]
    IN [g \in DOMAIN grouped |->
          [grouped[g] EXCEPT !.msgs = StableSortBy(@, newest)]]

BodyOrSnippet(m) == IF m.body_text # "" THEN m.body_text ELSE m.snippet

_extract_video_links(links) ==
    LET video_domains == {"youtube.com", "youtu.be", "vimeo.com", "loom.com", "wistia.com"}
    IN SelectSeq(links, LAMBDA l : \E d \in video_domains : contains(lower(l), d))

_build_source(msgs, i) ==
    LET message     == msgs[i]
        video_links == _extract_video_links(message.links)
    IN [sender          |-> message.sender,
        received_at     |-> message.received_at,
        email_link      |-> i,
        extracted_links |-> SelectSeq(message.links, LAMBDA l : l \notin Range(video_links)),
        prompt_of_day   |-> message.prompt,
        video_links     |-> video_links,
        company_news    |-> message.company]

_extract_tags(msgs, group) ==
    LET text == lower(join(" ", [k \in DOMAIN group |->
                    msgs[group[k]].subject \o " " \o msgs[group[k]].snippet]))
        t1   == IF contains(text, "ai") \/ contains(text, "ml") THEN <<"ai">> ELSE <<>>
        t2   == IF contains(text, "product") THEN Append(t1, "product") ELSE t1
        t3   == IF contains(text, "funding") \/ contains(text, "series")
                THEN Append(t2, "funding") ELSE t2
    IN IF t3 = <<>> THEN <<"general">> ELSE t3

\* variant: the category plays no part in the first rule
_score_priority_no_category(tags, has_company_news, category) ==
    IF "funding" \in tags \/ has_company_news
    THEN "high"
    ELSE IF "ai" \in tags \/ "company" \in tags \/ category \in {"research", "robots"}
         THEN "medium"
         ELSE "low"

_score_priority(tags, has_company_news, category) ==
    IF "funding" \in tags \/ has_company_news \/ category \in {"funding", "new_models"}
    THEN "high"
    ELSE IF "ai" \in tags \/ "company" \in tags \/ category \in {"research", "robots"}
         THEN "medium"
         ELSE "low"

\* re.split(r'(?<=[.!?])\s+', text): the pieces between the whitespace runs
\* that follow a ".", "!" or "?"
SplitSentences(text) ==
    LET breaks   == {i \in 2..Len(text) :
                        /\ IsSpace(CharAt(text, i))
                        /\ CharAt(text, i - 1) \in {".", "!", "?"}}
        Nth(n)   == CHOOSE i \in breaks : Cardinality({k \in breaks : k <= i}) = n
        From(n)  == IF n = 1 THEN 1 ELSE Nth(n - 1) + SpanIn(text, Nth(n - 1), SpaceChars)
        To(n)    == IF n = Cardinality(breaks) + 1 THEN Len(text) ELSE Nth(n) - 1
    IN [n \in 1..(Cardinality(breaks) + 1) |->
          IF From(n) > To(n) THEN "" ELSE SubSeq(text, From(n), To(n))]

news_keywords ==
    {"announced", "launched", "released", "raised", "acquired", "partnership",
     "billion", "million", "percent", "growth", "revenue", "users",
     "new", "first", "largest", "update", "version", "model", "feature",
     "company", "startup", "ceo", "founder", "team", "employees"}

promotional_words == {"click", "subscribe", "join", "free", "discount"}

greeting_words == {"welcome", "hello", "hi ", "hey "}

Digits == {"0", "1", "2", "3", "4", "5", "6", "7", "8", "9"}

\* the score of one sentence: news keywords it contains, one more for a
\* digit, two less for promotional language
SentenceScore(s) ==
    LET s_lower == lower(s)
    IN Cardinality({kw \in news_keywords : contains(s_lower, kw)})
       + (IF \E i \in 1..Len(s) : CharAt(s, i) \in Digits THEN 1 ELSE 0)
       - (IF \E w \in promotional_words : contains(s_lower, w) THEN 2 ELSE 0)

\* the loop over the sentences: scored_sentences in the order appended,
\* seen_content the word sets of the sentences appended
RECURSIVE ScoreSentences(_, _, _, _)
ScoreSentences(sentences, k, scored_sentences, seen_content) ==
    IF k > Len(sentences) THEN scored_sentences
    ELSE Only({
           LET is_duplicate == \E seen \in seen_content :
                                 2 * Cardinality(s_words \cap seen) > Cardinality(s_words)
           IN IF Len(s) < 20 \/ Len(s) > 300 \/ is_duplicate \/ score <= 0
              THEN ScoreSentences(sentences, k + 1, scored_sentences, seen_content)
              ELSE Only({ScoreSentences(sentences, k + 1, scored, seen) :
                         scored \in {Append(scored_sentences, [score |-> score, s |-> s])},
                         seen   \in {seen_content \cup {s_words}}}) :
           s \in {strip(sentences[k])},
           s_words \in {Range(split(lower(strip(sentences[k]))))},
           score \in {SentenceScore(strip(sentences[k]))}})

\* the fallback when no sentence scored: the first sentence longer than 30
\* characters without a greeting, else the text cut at 150 characters
FallbackSentence(sentences, text) ==
    LET eligible == {k \in DOMAIN sentences :
                        LET s == strip(sentences[k])
                        IN /\ Len(s) > 30
                           /\ ~\E w \in greeting_words : contains(lower(s), w)}
    IN IF eligible # {}
       THEN strip(sentences[CHOOSE k \in eligible : \A j \in eligible : k <= j])
       ELSE IF Len(text) > 150 THEN SubSeq(text, 1, 150) \o "..." ELSE text

\* the two best sentences, else the fallback
BestSentences(sentences, text) ==
    Only({IF best # <<>>
          THEN join(" ", [k \in 1..(IF Len(best) > 2 THEN 2 ELSE Len(best)) |-> best[k].s])
          ELSE FallbackSentence(sentences, text) :
          best \in {StableSortBy(scored, [x \in Range(scored) |-> 0 - x.score]) :
                      scored \in {ScoreSentences(sentences, 1, <<>>, {})}}})

\* result before the word limit, for the text the summary is cut from
SummaryResult(raw) ==
    Only({Only({BestSentences(sentences, text) : sentences \in {SplitSentences(text)}}) :
          text \in {_clean_text(raw)}})

\* message.body_text.strip() if message.body_text else message.snippet
SummaryText(message) ==
    IF message.body_text # "" THEN strip(message.body_text) ELSE message.snippet

\* variant: an empty result is returned as it is
LimitWords_no_placeholder(result, priority) ==
    LET max_words == IF priority = "high" THEN 45 ELSE 30
    IN Only({IF Len(words) > max_words
             THEN join(" ", SubSeq(words, 1, max_words)) \o "..."
             ELSE result :
             words \in {split(result)}})

\* the word limit and the placeholder of an empty result
LimitWords(result, priority) ==
    LET max_words == IF priority = "high" THEN 45 ELSE 30
    IN Only({IF Len(words) > max_words
             THEN join(" ", SubSeq(words, 1, max_words)) \o "..."
             ELSE IF result # "" THEN result ELSE "(sin resumen)" :
             words \in {split(result)}})

\* SummaryResult on the text of each message of the pool, evaluated once
PoolSummaryResult ==
    [raw \in {SummaryText(m) : m \in MessagePool} |-> SummaryResult(raw)]

_summarize(message, priority) ==
    Only({LimitWords(result, priority) :
          result \in {IF raw \in DOMAIN PoolSummaryResult
                      THEN PoolSummaryResult[raw] ELSE SummaryResult(raw) :
                      raw \in {SummaryText(message)}}})

\* " ".join(m.subject + " " + (m.body_text or m.snippet) for m in messages)
CombinedText(msgs, group) ==
    join(" ", [k \in DOMAIN group |->
                 msgs[group[k]].subject \o " " \o BodyOrSnippet(msgs[group[k]])])

\* _classify_category on the text of each single message of the pool,
\* evaluated once; a group of one message is looked up here
PoolCategory ==
    [m \in MessagePool |-> _classify_category(CombinedText(<<m>>, <<1>>))]

_build_item(msgs, topic, group) ==
    LET tags0   == Range(_extract_tags(msgs, group))
        sources == [k \in DOMAIN group |-> _build_source(msgs, group[k])]
        has_prompt       == \E k \in DOMAIN sources : sources[k].prompt_of_day
        has_video        == \E k \in DOMAIN sources : sources[k].video_links # <<>>
        has_company_news == \E k \in DOMAIN sources : sources[k].company_news
        tags == tags0 \cup (IF has_company_news THEN {"company"} ELSE {})
                      \cup (IF has_prompt THEN {"prompt"} ELSE {})
                      \cup (IF has_video THEN {"video"} ELSE {})
        combined_text == CombinedText(msgs, group)
        category == IF Len(group) = 1 /\ msgs[group[1]] \in MessagePool
                    THEN PoolCategory[msgs[group[1]]]
                    ELSE _classify_category(combined_text)
        priority == _score_priority(tags, has_company_news, category)
    IN [topic    |-> topic,
        summary  |-> _summarize(msgs[group[1]], priority),
        tags     |-> tags,
        priority |-> priority,
        sources  |-> sources,
        category |-> category,
        has_prompt |-> has_prompt,
        has_video  |-> has_video,
        has_company_news |-> has_company_news]

BuildItems(msgs) ==
    LET grouped == _group_by_topic(msgs)
    IN [g \in DOMAIN grouped |-> _build_item(msgs, grouped[g].topic, grouped[g].msgs)]


(***************************************************************************)
(* analysis_agent.py: _deduplicate_items                                   *)
(***************************************************************************)
stopwords ==
    {"the", "a", "an", "and", "or", "of", "to", "in", "for", "is", "are",
     "ai", "news", "update", "daily", "weekly", "newsletter", "today",
     "this", "that", "with", "from", "your", "on", "at", "by"}

\* priority_order.get(x.priority, 2)
priority_order(priority) ==
    CASE priority = "high" -> 0
      [] priority = "medium" -> 1
      [] priority = "low" -> 2
      [] OTHER -> 2

\* variant: the items are processed in their input order
SortByPriority_unsorted(its) == [i \in DOMAIN its |-> i]

\* variant: the sort groups by category first, then by priority
SortByPriority_by_category(its) ==
    StableSortBy([i \in DOMAIN its |-> i],
                 [i \in DOMAIN its |->
                     3 * (CHOOSE c \in DOMAIN CategoryIds : CategoryIds[c] = its[i].category)
                     + priority_order(its[i].priority)])

\* sorted(items, key=...): the item indices in stable priority order
SortByPriority(its) ==
    StableSortBy([i \in DOMAIN its |-> i],
                 [i \in DOMAIN its |-> priority_order(its[i].priority)])

SignificantWords(topic) ==
    {w \in Range(split(lower(topic))) : w \notin stopwords /\ Len(w) > 2}

\* the significant words of the topic of each message of the pool,
\* evaluated once
PoolKeyWords ==
    [t \in {_normalize_topic(m.subject) : m \in MessagePool} |-> SignificantWords(t)]

\* key_words = set(w for w in topic.lower().split() if ...)
key_words(topic) ==
    IF topic \in DOMAIN PoolKeyWords THEN PoolKeyWords[topic] ELSE SignificantWords(topic)

Max(a, b) == IF a >= b THEN a ELSE b

\* variant: the ratio is taken over the smaller of the two sets, threshold 0.5
IsDuplicate_min50(kw, seen_key) ==
    LET common  == kw \cap seen_key
        smaller == IF Cardinality(kw) <= Cardinality(seen_key)
                   THEN Cardinality(kw) ELSE Cardinality(seen_key)
    IN /\ 2 * Cardinality(common) >= Max(smaller, 1)
       /\ Cardinality(common) >= 2

\* variant: the ratio alone decides, without the floor of 2 common words
IsDuplicate_no_floor(kw, seen_key) ==
    LET common == kw \cap seen_key
    IN 5 * Cardinality(common) >= 2 * Max(Cardinality(kw), 1)

\* match_ratio = len(common) / max(len(key_words), 1), compared with 0.4 = 2/5
\* in exact arithmetic
IsDuplicate(kw, seen_key) ==
    LET common == kw \cap seen_key
    IN /\ 5 * Cardinality(common) >= 2 * Max(Cardinality(kw), 1)
       /\ Cardinality(common) >= 2

\* variant: the scan does not stop at the first match and the last one wins
FirstMatch_last(kw, seen) ==
    IF \E j \in DOMAIN seen : IsDuplicate(kw, seen[j].key)
    THEN CHOOSE j \in DOMAIN seen :
            /\ IsDuplicate(kw, seen[j].key)
            /\ \A h \in (j + 1)..Len(seen) : ~IsDuplicate(kw, seen[h].key)
    ELSE 0

\* positions of seen_topics (in dict order) that the inner loop visits: it
\* stops at the first match
FirstMatch(kw, seen) ==
    IF \E j \in DOMAIN seen : IsDuplicate(kw, seen[j].key)
    THEN CHOOSE j \in DOMAIN seen :
            /\ IsDuplicate(kw, seen[j].key)
            /\ \A h \in 1..(j - 1) : ~IsDuplicate(kw, seen[h].key)
    ELSE 0

Visited(kw, seen) ==
    IF FirstMatch(kw, seen) = 0 THEN Len(seen) ELSE FirstMatch(kw, seen)

Compared(cand, kw, seen) ==
    [j \in 1..Visited(kw, seen) |->
        [cand |-> cand, key_words |-> kw, seen_item |-> seen[j].item,
         seen_key |-> seen[j].key, dup |-> IsDuplicate(kw, seen[j].key)]]

\* seen_topics[frozenset(key_words)] = item: an existing key keeps its place
\* in the dict and gets the new value
DictSet(seen, key, item) ==
    IF \E j \in DOMAIN seen : seen[j].key = key
    THEN [j \in DOMAIN seen |->
            IF seen[j].key = key THEN [key |-> key, item |-> item] ELSE seen[j]]
    ELSE Append(seen, [key |-> key, item |-> item])

(***************************************************************************)
(* delivery_agent.py: the two renderings of a Report.  A rendering is the  *)
(* sequence of its header and item blocks, top to bottom.                  *)
(***************************************************************************)
category_order == <<"new_models", "research", "robots", "funding", "apps", "general">>

\* {"high": ..., "medium": ..., "low": ...}.get(item.priority, ""): the
\* coloured circle printed before the topic
priority_icon(priority) ==
    CASE priority = "high" -> "red"
      [] priority = "medium" -> "yellow"
      [] priority = "low" -> "green"
      [] OTHER -> ""

\* s.split("<")[0]
BeforeAngle(s) ==
    IF contains(s, "<")
    THEN SubSeq(s, 1, (CHOOSE i \in 1..Len(s) :
                          /\ CharAt(s, i) = "<"
                          /\ \A k \in 1..(i - 1) : CharAt(s, k) # "<") - 1)
    ELSE s

\* str.replace(old, ""), left to right
RECURSIVE remove(_, _)
remove(s, old) ==
    IF ~contains(s, old) THEN s
    ELSE LET i == CHOOSE i \in 1..Len(s) :
                     /\ SubSeq(s, i, i + Len(old) - 1) = old
                     /\ \A k \in 1..(i - 1) : SubSeq(s, k, k + Len(old) - 1) # old
         IN SubSeq(s, 1, i - 1) \o remove(SubSeq(s, i + Len(old), Len(s)), old)

FirstN(seq, n) == SubSeq(seq, 1, IF Len(seq) < n THEN Len(seq) ELSE n)

\* [i for i in report.items if i.category == cat_id]
CatItems(rep, its, cat_id) ==
    SelectSeq(rep.items, LAMBDA i : its[i].category = cat_id)

PreviewItem(its, i) ==
    [kind    |-> "item",
     item    |-> i,
     icon    |-> priority_icon(its[i].priority),
     topic   |-> its[i].topic,
     summary |-> its[i].summary,
     fuentes |-> FirstN([k \in DOMAIN its[i].sources |->
                            strip(BeforeAngle(its[i].sources[k].sender))], 3)]

RECURSIVE PreviewFrom(_, _, _)
PreviewFrom(rep, its, c) ==
    IF c > Len(category_order) THEN <<>>
    ELSE LET cat_items == CatItems(rep, its, category_order[c])
         IN (IF cat_items = <<>> THEN <<>>
             ELSE <<[kind |-> "category", cat_id |-> category_order[c]]>>
                  \o [k \in DOMAIN cat_items |-> PreviewItem(its, cat_items[k])])
            \o PreviewFrom(rep, its, c + 1)

_render_report(rep, its) ==
    <<[kind |-> "resumen"]>> \o PreviewFrom(rep, its, 1)

TableFuente(source) ==
    LET sender_clean == remove(strip(BeforeAngle(source.sender)), " via ")
    IN [name |-> IF Len(sender_clean) > 30
                 THEN SubSeq(sender_clean, 1, 27) \o "..."
                 ELSE sender_clean,
        date |-> source.received_at]

TableItem(its, i, item_idx) ==
    [kind     |-> "item",
     item     |-> i,
     item_idx |-> item_idx,
     icon     |-> priority_icon(its[i].priority),
     topic    |-> its[i].topic,
     summary  |-> its[i].summary,
     has_prompt |-> its[i].has_prompt,
     has_video  |-> its[i].has_video,
     fuentes  |-> FirstN([k \in DOMAIN its[i].sources |->
                             TableFuente(its[i].sources[k])], 3)]

\* variant: the sort puts the largest rank first
SortCatItems_descending(cat_items, its) ==
    StableSortBy(cat_items, [i \in DOMAIN its |-> 2 - priority_order(its[i].priority)])

\* cat_items.sort(key=priority rank)
SortCatItems(cat_items, its) ==
    StableSortBy(cat_items, [i \in DOMAIN its |-> priority_order(its[i].priority)])

RECURSIVE TableFrom(_, _, _)
TableFrom(rep, its, c) ==
    IF c > Len(category_order) THEN <<>>
    ELSE LET cat_items == SortCatItems(CatItems(rep, its, category_order[c]), its)
         IN (IF cat_items = <<>> THEN <<>>
             ELSE <<[kind |-> "category", cat_id |-> category_order[c]]>>
                  \o [k \in DOMAIN cat_items |-> TableItem(its, cat_items[k], k)])
            \o TableFrom(rep, its, c + 1)

_build_table_style_report(rep, its) ==
    <<[kind |-> "header"]>> \o TableFrom(rep, its, 1)

\* variant: the duplicate's sources are put in front of the kept item's
MergeSources_prepend(its, seen_item, item) ==
    [its EXCEPT ![seen_item].sources = its[item].sources \o @]

\* variant: a source is appended only if its sender is not yet listed
MergeSources_new_senders(its, seen_item, item) ==
    [its EXCEPT ![seen_item].sources =
        @ \o SelectSeq(its[item].sources,
                       LAMBDA x : \A k \in DOMAIN its[seen_item].sources :
                                     its[seen_item].sources[k].sender # x.sender)]

\* seen_item.sources.extend(item.sources)
MergeSources(its, seen_item, item) ==
    [its EXCEPT ![seen_item].sources = @ \o its[item].sources]

\* outside the text specification no text is normalized
NoText ==
    /\ fragments = <<>>
    /\ once = ""
    /\ twice = ""

\* outside the retry specification no Gmail API call is made
NoRetry ==
    /\ api_call = None
    /\ message_ids = <<>>
    /\ got = 0
    /\ attempt = 0
    /\ executed = 0
    /\ slept = 0
    /\ wait_time = None
    /\ caught = None
    /\ raised = None

\* the locals of Pipeline.run before the report is there
NoRun ==
    /\ config = None
    /\ model = 0
    /\ attempts = <<>>
    /\ last_error = None
    /\ response_text = None
    /\ review_feedback = None
    /\ doc_id = None
    /\ shortcut_path = None
    /\ calls = <<>>
    /\ state = None
    /\ run_result = None
    /\ exception = None

Init ==
    /\ pc = "fetch"
    /\ messages = <<>>
    /\ items = <<>>
    /\ items0 = <<>>
    /\ sorted_items = <<>>
    /\ pos = 0
    /\ seen_topics = <<>>
    /\ unique_items = <<>>
    /\ decisions = <<>>
    /\ merges = <<>>
    /\ report = None
    /\ preview = None
    /\ doc = None
    /\ NoText
    /\ NoRetry
    /\ NoRun

\* One more message of the mailbox is handed to the analysis (Pipeline.run
\* passes the fetched list to analyze); message_id is the list position.
Fetch(m) ==
    /\ pc = "fetch"
    /\ Len(messages) < MaxMessages
    /\ messages' = Append(messages, m)
    /\ UNCHANGED <<retry_vars, pc, items, items0, sorted_items, pos, seen_topics,
                   unique_items, decisions, merges, report, preview, doc,
                   text_vars, run_vars>>

\* analyze up to the head of the loop of _deduplicate_items: grouping, item
\* construction, the priority sort.  items0 remembers the items as built.
AnalyzeBegin ==
    /\ pc = "fetch"
    /\ pc' = "dedup"
    /\ items' = BuildItems(messages)
    /\ items0' = items'
    /\ sorted_items' = SortByPriority(items')
    /\ pos' = 1
    /\ seen_topics' = <<>>
    /\ unique_items' = <<>>
    /\ decisions' = <<>>
    /\ merges' = <<>>
    /\ UNCHANGED <<retry_vars, messages, report, preview, doc,
                   text_vars, run_vars>>

InLoop == pc = "dedup" /\ pos <= Len(sorted_items)

\* variant: an item without key words is skipped, not kept
DedupKeepNoKey_dropped ==
    /\ InLoop
    /\ key_words(items[sorted_items[pos]].topic) = {}
    /\ pos' = pos + 1
    /\ UNCHANGED <<retry_vars, pc, messages, items, items0, sorted_items, seen_topics,
                   unique_items, decisions, merges, report, preview, doc,
                   text_vars, run_vars>>

\* loop body, `if not key_words` branch
DedupKeepNoKey ==
    /\ InLoop
    /\ LET item == sorted_items[pos]
       IN /\ key_words(items[item].topic) = {}
          /\ unique_items' = Append(unique_items, item)
    /\ pos' = pos + 1
    /\ UNCHANGED <<retry_vars, pc, messages, items, items0, sorted_items, seen_topics,
                   decisions, merges, report, preview, doc,
                   text_vars, run_vars>>

\* loop body, a seen topic matches: the sources are merged into it
DedupMerge ==
    /\ InLoop
    /\ LET item == sorted_items[pos]
           kw   == key_words(items[item].topic)
           j    == FirstMatch(kw, seen_topics)
       IN /\ kw # {}
          /\ j # 0
          /\ items' = MergeSources(items, seen_topics[j].item, item)
          /\ merges' = Append(merges, [dup |-> item, kept |-> seen_topics[j].item])
          /\ decisions' = decisions \o Compared(item, kw, seen_topics)
    /\ pos' = pos + 1
    /\ UNCHANGED <<retry_vars, pc, messages, items0, sorted_items, seen_topics,
                   unique_items, report, preview, doc,
                   text_vars, run_vars>>

\* loop body, no seen topic matches: the item is kept and becomes a seen topic
DedupKeep ==
    /\ InLoop
    /\ LET item == sorted_items[pos]
           kw   == key_words(items[item].topic)
       IN /\ kw # {}
          /\ FirstMatch(kw, seen_topics) = 0
          /\ seen_topics' = DictSet(seen_topics, kw, item)
          /\ unique_items' = Append(unique_items, item)
          /\ decisions' = decisions \o Compared(item, kw, seen_topics)
    /\ pos' = pos + 1
    /\ UNCHANGED <<retry_vars, pc, messages, items, items0, sorted_items, merges,
                   report, preview, doc,
                   text_vars, run_vars>>

\* CATEGORIES[cat_id]["name_en"]
name_en(cat_id) ==
    CASE cat_id = "new_models" -> "New Models"
      [] cat_id = "research" -> "Research"
      [] cat_id = "robots" -> "Robots"
      [] cat_id = "funding" -> "Funding & Companies"
      [] cat_id = "apps" -> "Apps & Tools"
      [] cat_id = "general" -> "General"

\* cat_counts[cat_id] after the counting loop over the given items
CatCount(its, item_list, cat_id) ==
    Cardinality({k \in DOMAIN item_list : its[item_list[k]].category = cat_id})

\* the parts "<count> <name>" of the summary, for the categories from
\* position c of the fixed list on that have a count
RECURSIVE SummaryParts(_, _, _)
SummaryParts(its, item_list, c) ==
    IF c > Len(category_order) THEN <<>>
    ELSE (IF CatCount(its, item_list, category_order[c]) > 0
          THEN <<[count |-> CatCount(its, item_list, category_order[c]),
                  name  |-> name_en(category_order[c])]>>
          ELSE <<>>)
         \o SummaryParts(its, item_list, c + 1)

\* variant: the total counts the items as built, before deduplication
_build_exec_summary_all_built(its, item_list) ==
    IF item_list = <<>>
    THEN [kind |-> "none", parts |-> <<>>, total |-> 0]
    ELSE [kind  |-> "counts",
          parts |-> SummaryParts(its, item_list, 1),
          total |-> Len(its)]

\* the English summary: "No relevant updates." (kind "none") or
\* "Today: <parts>. Total: <total> news." (kind "counts")
_build_exec_summary(its, item_list) ==
    IF item_list = <<>>
    THEN [kind |-> "none", parts |-> <<>>, total |-> 0]
    ELSE [kind  |-> "counts",
          parts |-> SummaryParts(its, item_list, 1),
          total |-> Len(item_list)]

\* _deduplicate_items returns unique_items and analyze wraps them in a
\* Report, with the summary if the configuration asks for it (kind "off"
\* stands for the empty strings)
AnalyzeReturn(include_exec_summary) ==
    /\ pc = "dedup"
    /\ pos > Len(sorted_items)
    /\ pc' = "report"
    /\ report' = [items |-> unique_items,
                  executive_summary_en |->
                      IF include_exec_summary
                      THEN _build_exec_summary(items, unique_items)
                      ELSE [kind |-> "off", parts |-> <<>>, total |-> 0]]
    /\ UNCHANGED <<retry_vars, messages, items, items0, sorted_items, pos, seen_topics,
                   unique_items, decisions, merges, preview, doc,
                   text_vars, run_vars>>

\* Pipeline.run renders the review preview of the report, ...
RenderReport ==
    /\ pc = "report"
    /\ report.items # <<>>
    /\ pc' = "preview"
    /\ preview' = _render_report(report, items)
    /\ UNCHANGED <<retry_vars, messages, items, items0, sorted_items, pos, seen_topics,
                   unique_items, decisions, merges, report, doc,
                   text_vars, run_vars>>

\* ... and create_report_doc builds the text of the final document
BuildTableStyleReport ==
    /\ pc = "preview"
    /\ report.items # <<>>
    /\ pc' = "done"
    /\ doc' = _build_table_style_report(report, items)
    /\ UNCHANGED <<retry_vars, messages, items, items0, sorted_items, pos, seen_topics,
                   unique_items, decisions, merges, report, preview,
                   text_vars, run_vars>>

Next ==
    \/ \E m \in MessagePool : Fetch(m)
    \/ AnalyzeBegin
    \/ DedupKeepNoKey
    \/ DedupMerge
    \/ DedupKeep
    \/ \E include_exec_summary \in BOOLEAN : AnalyzeReturn(include_exec_summary)
    \/ RenderReport
    \/ BuildTableStyleReport

Spec == Init /\ [][Next]_vars

(***************************************************************************)
(* Item construction on its own: analyze is given one message and builds   *)
(* the item.  The message has a subject of up to MaxWords words of         *)
(* Vocabulary and a body that is empty or a company announcement (the text *)
(* on which _extract_company_news finds a match), or it has a subject that *)
(* is absent or one word, with each body of Bodies and snippet of Snippets.*)
(***************************************************************************)
Vocabulary ==
    {"GPT-5", "paper", "arxiv", "Robot", "Series", "raised", "API", "ML", "hello"}

CompanyAnnouncement == "Google partners with Acme Labs"

RECURSIVE Subjects(_)
Subjects(n) ==
    IF n = 1 THEN Vocabulary
    ELSE Subjects(n - 1) \cup {s \o " " \o w : s \in Subjects(n - 1), w \in Vocabulary}

\* subjects that _normalize_topic reduces to nothing
AbsentSubjects == {"", "  ", "Re:"}

\* a sentence of 36 words, over the word limit of every priority but high
LongBody ==
    "We walked along the old road the old road the old road the old road "
    \o "the old road the old road the old road the old road the old road "
    \o "the old road until dusk."

Bodies == {"", CompanyAnnouncement, "   ", "Click here to subscribe.", LongBody}

Snippets == {"", "OpenAI released a new model for developers."}

ItemMessages ==
    {Msg(subject, "", body, "TLDR <t@x>", 1, <<>>, FALSE, body # "") :
        subject \in Subjects(MaxWords), body \in {"", CompanyAnnouncement}}
    \cup
    {Msg(subject, snippet, body, "TLDR <t@x>", 1, <<>>, FALSE, body = CompanyAnnouncement) :
        subject \in AbsentSubjects \cup Vocabulary, body \in Bodies, snippet \in Snippets}

ItemInit ==
    /\ pc = "fetch"
    /\ \E m \in ItemMessages : messages = <<m>>
    /\ items = <<>>
    /\ items0 = <<>>
    /\ sorted_items = <<>>
    /\ pos = 0
    /\ seen_topics = <<>>
    /\ unique_items = <<>>
    /\ decisions = <<>>
    /\ merges = <<>>
    /\ report = None
    /\ preview = None
    /\ doc = None
    /\ NoText
    /\ NoRetry
    /\ NoRun

\* the analysis of the one message: with a single item no seen topic can
\* match, so the loop body keeps it
ItemNext ==
    \/ AnalyzeBegin
    \/ DedupKeepNoKey
    \/ DedupKeep
    \/ \E include_exec_summary \in BOOLEAN : AnalyzeReturn(include_exec_summary)

ItemSpec == ItemInit /\ [][ItemNext]_vars


(***************************************************************************)
(* Text normalization on its own: a text made of up to MaxFragments        *)
(* fragments (plain sentences, footer markers, orphan punctuation, escaped *)
(* entities, markup) is handed to _clean_text or to _html_to_clean_text,   *)
(* and the result is handed to the same function again.                    *)
(***************************************************************************)
Sentences == {"Acme raised funds. ", "Go. "}

FooterMarkers == {"Unsubscribe here. ", "unsubscribe "}

TextFragments ==
    Sentences \cup FooterMarkers \cup {"| , ", "&amp;lt;", "&lt;b&gt;", "<p>Hello</p>"}

FragmentLists(n) == UNION {[1..k -> TextFragments] : k \in 1..n}

\* the text the fragments make
Text == join("", fragments)

TextInit ==
    /\ pc = "text"
    /\ fragments \in FragmentLists(MaxFragments)
    /\ once = ""
    /\ twice = ""
    /\ messages = <<>>
    /\ items = <<>>
    /\ items0 = <<>>
    /\ sorted_items = <<>>
    /\ pos = 0
    /\ seen_topics = <<>>
    /\ unique_items = <<>>
    /\ decisions = <<>>
    /\ merges = <<>>
    /\ report = None
    /\ preview = None
    /\ doc = None
    /\ NoRun
    /\ NoRetry

analysis_vars == <<messages, items, items0, sorted_items, pos, seen_topics,
                   unique_items, decisions, merges, report, preview, doc>>

CleanText ==
    /\ pc = "text"
    /\ pc' = "cleaned"
    /\ once' = _clean_text(Text)
    /\ UNCHANGED <<retry_vars, fragments, twice, analysis_vars, run_vars>>

CleanTextAgain ==
    /\ pc = "cleaned"
    /\ pc' = "recleaned"
    /\ twice' = _clean_text(once)
    /\ UNCHANGED <<retry_vars, fragments, once, analysis_vars, run_vars>>

HtmlToCleanText ==
    /\ pc = "text"
    /\ pc' = "html_cleaned"
    /\ once' = _html_to_clean_text(Text)
    /\ UNCHANGED <<retry_vars, fragments, twice, analysis_vars, run_vars>>

HtmlToCleanTextAgain ==
    /\ pc = "html_cleaned"
    /\ pc' = "html_recleaned"
    /\ twice' = _html_to_clean_text(once)
    /\ UNCHANGED <<retry_vars, fragments, once, analysis_vars, run_vars>>

TextNext ==
    \/ CleanText
    \/ CleanTextAgain
    \/ HtmlToCleanText
    \/ HtmlToCleanTextAgain

TextSpec == TextInit /\ [][TextNext]_vars


(***************************************************************************)
(* pipeline.py: Pipeline.run after the fetch, with review_agent.py:        *)
(* ReviewAgent.review_document_text, _generate_text and _parse_response.   *)
(* The calls to the Gemini, Docs and Gmail services are steps whose        *)
(* outcome (a value or an exception) is chosen by the environment.         *)
(* calls is the log of the calls run makes to its collaborators, attempts  *)
(* the log of the generate_content calls of _generate_text.  An optional   *)
(* object is None or Some(object).                                         *)
(***************************************************************************)
Some(v) == <<v>>

\* ReviewAgent.__init__: the variants, if there is an API key
_model_names(cfg) ==
    IF cfg.api_key
    THEN <<"gemini-2.5-pro", "gemini-2.5-flash", "gemini-flash-latest">>
    ELSE <<>>

\* ReviewAgent.enabled
enabled(cfg) == _model_names(cfg) # <<>>

\* what generate_content can raise: the kind of failure of the service and
\* the text str(e) of the exception
Errors ==
    { [kind |-> "not_found", message |-> "404 models/gemini-2.5-pro is not found"],
      [kind |-> "quota", message |-> "429 Quota exceeded for metric"],
      [kind |-> "quota", message |-> "429 quota, limit: 0"],
      [kind |-> "other", message |-> "500 Internal error"] }

\* what response.text can be
Responses ==
    { "QUALITY: GOOD\nISSUES:\n- None\nSUMMARY: Clear",
      "QUALITY: Fair\nISSUES:\n- Long\nSUGGESTIONS:\n- Cut\nSUMMARY: Usable",
      "QUALITY: POOR\nISSUES:\n- Mismatch" }

Outcomes ==
    {[kind |-> "text", value |-> r] : r \in Responses}
    \cup {[kind |-> "error", value |-> e] : e \in Errors}

\* the test of _generate_text on str(e)
SkipsVariant(err_str) ==
    \/ contains(err_str, "not found")
    \/ contains(err_str, "limit: 0")
    \/ contains(err_str, "Quota exceeded")

UpperAlphabetOf ==
    [c \in {CharAt(LowerAlphabet, i) : i \in 1..26} |->
        CharAt(UpperAlphabet, CHOOSE i \in 1..26 : CharAt(LowerAlphabet, i) = c)]

\* str.upper()
RECURSIVE upper(_)
upper(s) ==
    IF s = "" THEN ""
    ELSE (IF CharAt(s, 1) \in DOMAIN UpperAlphabetOf
          THEN UpperAlphabetOf[CharAt(s, 1)] ELSE CharAt(s, 1))
         \o upper(SubSeq(s, 2, Len(s)))

\* line.split(":", 1)[1] of a line with a colon
AfterColon(line) ==
    LET colons == {i \in 1..Len(line) : CharAt(line, i) = ":"}
        first  == CHOOSE i \in colons : \A k \in colons : i <= k
    IN SubSeq(line, first + 1, Len(line))

\* the loop of _parse_response from line k on; fb holds is_good, issues,
\* suggestions, summary and section (the bullet character other than "-"
\* is not ASCII and does not occur in the texts of the model)
RECURSIVE ParseLines(_, _, _)
ParseLines(lines, k, fb) ==
    IF k > Len(lines) THEN fb
    ELSE Only({ParseLines(lines, k + 1, next) :
               next \in {
                 IF startswith(line, "QUALITY:") \/ startswith(line, "CALIDAD:")
                 THEN [fb EXCEPT !.is_good = upper(strip(AfterColon(line))) \in {"GOOD", "BUENA"}]
                 ELSE IF startswith(line, "ISSUES:") \/ startswith(line, "PROBLEMAS:")
                 THEN [fb EXCEPT !.section = "problems"]
                 ELSE IF startswith(line, "SUGGESTIONS:") \/ startswith(line, "SUGERENCIAS:")
                 THEN [fb EXCEPT !.section = "suggestions"]
                 ELSE IF startswith(line, "SUMMARY:") \/ startswith(line, "RESUMEN:")
                 THEN [fb EXCEPT !.summary = strip(AfterColon(line)), !.section = None]
                 ELSE IF startswith(line, "- ")
                 THEN LET item == strip(SubSeq(line, 3, Len(line)))
                      IN IF lower(item) \in {"ninguno", "none"} THEN fb
                         ELSE IF fb.section = "problems"
                         THEN [fb EXCEPT !.issues = Append(@, item)]
                         ELSE IF fb.section = "suggestions"
                         THEN [fb EXCEPT !.suggestions = Append(@, item)]
                         ELSE fb
                 ELSE fb :
                 line \in {strip(lines[k])}}})

ReviewFeedback(is_good, issues, suggestions, summary) ==
    [is_good |-> is_good, issues |-> issues, suggestions |-> suggestions,
     summary |-> summary]

_parse_response(text) ==
    LET fb == ParseLines(SplitLines(strip(text)), 1,
                         [is_good |-> TRUE, issues |-> <<>>, suggestions |-> <<>>,
                          summary |-> "", section |-> None])
    IN Only({ReviewFeedback(parsed.is_good, parsed.issues, parsed.suggestions,
                            IF parsed.summary # "" THEN parsed.summary
                            ELSE "Review completed") :
             parsed \in {fb}})

\* the state dictionary: state[key] = value
Put(dict, key, value) ==
    [k \in DOMAIN dict \cup {key} |-> IF k = key THEN value ELSE dict[k]]

\* _load_state: {} when there is no state file, else what the run before
\* has written
LoadedStates ==
    { [k \in {} |-> None],
      [last_run |-> "2026-01-01T08:31", window_start |-> "2025-12-31T13:30",
       window_end |-> "2026-01-01T08:30", last_doc_id |-> "doc-0", last_count |-> 1,
       last_review |-> [is_good |-> TRUE, issues |-> <<>>, suggestions |-> <<>>,
                        summary |-> "Clear"]] }

\* now, and the window that _compute_previous_window gives for it
now == "2026-01-01T13:31"

window_start == "2026-01-01T08:30"

window_end == "2026-01-01T13:30"

\* the arguments and the configuration of a run
Configs ==
    [dry_run : BOOLEAN, api_key : BOOLEAN, shortcut_enabled : BOOLEAN]

\* what fetch_messages returns: an empty mailbox, or messages of which two
\* report the same story and one has a subject without key words
RunPool ==
    {m \in MessagePool : m.subject \in {"OpenAI launches new model today",
                                        "FWD: OpenAI launches new multimodal model weights today",
                                        "Daily AI newsletter"}}

RECURSIVE RunMessageLists(_)
RunMessageLists(n) ==
    IF n = 0 THEN {<<>>}
    ELSE RunMessageLists(n - 1)
         \cup {Append(list, m) : list \in {l \in RunMessageLists(n - 1) : Len(l) = n - 1},
                                 m \in RunPool}

RunInit ==
    /\ pc = "fetch"
    /\ messages \in RunMessageLists(MaxRunMessages)
    /\ items = <<>>
    /\ items0 = <<>>
    /\ sorted_items = <<>>
    /\ pos = 0
    /\ seen_topics = <<>>
    /\ unique_items = <<>>
    /\ decisions = <<>>
    /\ merges = <<>>
    /\ report = None
    /\ preview = None
    /\ doc = None
    /\ NoText
    /\ NoRetry
    /\ config \in Configs
    /\ state \in LoadedStates
    /\ model = 0
    /\ attempts = <<>>
    /\ last_error = None
    /\ response_text = None
    /\ review_feedback = None
    /\ doc_id = None
    /\ shortcut_path = None
    /\ calls = <<>>
    /\ run_result = None
    /\ exception = None

Call(name, result) == [name |-> name, result |-> result]

\* `if not report.items` of the review block: nothing to review
NothingToReview ==
    /\ pc = "report"
    /\ report.items = <<>>
    /\ pc' = "deliver"
    /\ UNCHANGED <<retry_vars, analysis_vars, text_vars, run_vars>>

\* `elif self._review.enabled`: the preview is rendered and
\* review_document_text entered, up to the loop of _generate_text
ReviewDocumentText ==
    /\ pc = "report"
    /\ report.items # <<>>
    /\ enabled(config)
    /\ preview' = _render_report(report, items)
    /\ calls' = Append(calls, Call("review_document_text", "entered"))
    /\ model' = 1
    /\ last_error' = None
    /\ pc' = "generate"
    /\ UNCHANGED <<retry_vars, messages, items, items0, sorted_items, pos, seen_topics,
                   unique_items, decisions, merges, report, doc, text_vars,
                   config, attempts, response_text, review_feedback, doc_id,
                   shortcut_path, state, run_result, exception>>

\* `else`: review mode disabled
ReviewDisabled ==
    /\ pc = "report"
    /\ report.items # <<>>
    /\ ~enabled(config)
    /\ pc' = "deliver"
    /\ UNCHANGED <<retry_vars, analysis_vars, text_vars, run_vars>>

\* variant: any error moves on to the next variant
GenerateContent_next_on_any_error(outcome) ==
    /\ pc = "generate"
    /\ model <= Len(_model_names(config))
    /\ attempts' = Append(attempts, [model |-> _model_names(config)[model],
                                     outcome |-> outcome])
    /\ IF outcome.kind = "text"
       THEN /\ response_text' = outcome.value
            /\ pc' = "parse"
            /\ UNCHANGED <<retry_vars, model, last_error>>
       ELSE /\ last_error' = outcome.value.message
            /\ model' = model + 1
            /\ UNCHANGED <<retry_vars, pc, response_text>>
    /\ UNCHANGED <<retry_vars, analysis_vars, text_vars, config, review_feedback,
                   doc_id, shortcut_path, calls, state, run_result, exception>>

\* one pass of the loop of _generate_text: generate_content of the variant
\* returns a text, which is returned, or raises; the error is remembered
\* and the loop goes on (continue) or ends (break)
GenerateContent(outcome) ==
    /\ pc = "generate"
    /\ model <= Len(_model_names(config))
    /\ attempts' = Append(attempts, [model |-> _model_names(config)[model],
                                     outcome |-> outcome])
    /\ IF outcome.kind = "text"
       THEN /\ response_text' = outcome.value
            /\ pc' = "parse"
            /\ UNCHANGED <<retry_vars, model, last_error>>
       ELSE /\ last_error' = outcome.value.message
            /\ IF SkipsVariant(outcome.value.message)
               THEN model' = model + 1 /\ pc' = pc
               ELSE model' = model /\ pc' = "raise"
            /\ UNCHANGED response_text
    /\ UNCHANGED <<retry_vars, analysis_vars, text_vars, config, review_feedback,
                   doc_id, shortcut_path, calls, state, run_result, exception>>

\* the loop has gone through every variant
VariantsExhausted ==
    /\ pc = "generate"
    /\ model > Len(_model_names(config))
    /\ pc' = "raise"
    /\ UNCHANGED <<retry_vars, analysis_vars, text_vars, run_vars>>

\* after the loop: raise last_error, or RuntimeError without variants
RaiseLastError ==
    /\ pc = "raise"
    /\ exception' = IF last_error # None THEN last_error
                    ELSE "No Gemini models configured"
    /\ pc' = "except"
    /\ UNCHANGED <<retry_vars, analysis_vars, text_vars, config, model, attempts,
                   last_error, response_text, review_feedback, doc_id,
                   shortcut_path, calls, state, run_result>>

\* review_document_text returns the parsed response
ParseResponse ==
    /\ pc = "parse"
    /\ review_feedback' = Some(_parse_response(response_text))
    /\ pc' = "deliver"
    /\ UNCHANGED <<retry_vars, analysis_vars, text_vars, config, model, attempts,
                   last_error, response_text, doc_id, shortcut_path, calls,
                   state, run_result, exception>>

\* variant: review_document_text lets the exception through, and so does run
ReviewError_propagates ==
    /\ pc = "except"
    /\ pc' = "failed"
    /\ UNCHANGED <<retry_vars, analysis_vars, text_vars, run_vars>>

\* `except Exception` of review_document_text: the error becomes feedback
ReviewError ==
    /\ pc = "except"
    /\ review_feedback' = Some(ReviewFeedback(FALSE, <<"Review error: " \o exception>>,
                                              <<>>, "Could not complete review"))
    /\ exception' = None
    /\ pc' = "deliver"
    /\ UNCHANGED <<retry_vars, analysis_vars, text_vars, config, model, attempts,
                   last_error, response_text, doc_id, shortcut_path, calls,
                   state, run_result>>

\* variant: the delivery block has no branch for a report without items
NothingToDeliver_creates_document ==
    /\ pc = "deliver"
    /\ report.items = <<>>
    /\ calls' = Append(calls, Call("create_report_doc", "returned"))
    /\ doc_id' = "doc-1"
    /\ pc' = "mark"
    /\ UNCHANGED <<retry_vars, analysis_vars, text_vars, config, model, attempts,
                   last_error, response_text, review_feedback,
                   shortcut_path, state, run_result, exception>>

\* `if not report.items` of the delivery block
NothingToDeliver ==
    /\ pc = "deliver"
    /\ report.items = <<>>
    /\ pc' = "save"
    /\ UNCHANGED <<retry_vars, analysis_vars, text_vars, run_vars>>

\* variant: the delivery block does not look at dry_run
DryRun_creates_document ==
    /\ pc = "deliver"
    /\ report.items # <<>>
    /\ config.dry_run
    /\ calls' = Append(calls, Call("create_report_doc", "returned"))
    /\ doc_id' = "doc-1"
    /\ pc' = "mark"
    /\ UNCHANGED <<retry_vars, analysis_vars, text_vars, config, model, attempts,
                   last_error, response_text, review_feedback,
                   shortcut_path, state, run_result, exception>>

\* `elif dry_run`
DryRun ==
    /\ pc = "deliver"
    /\ report.items # <<>>
    /\ config.dry_run
    /\ pc' = "save"
    /\ UNCHANGED <<retry_vars, analysis_vars, text_vars, run_vars>>

\* variant: the emails are marked as read whether the document is there or not
CreateReportDoc_marks_anyway(outcome) ==
    /\ pc = "deliver"
    /\ report.items # <<>>
    /\ ~config.dry_run
    /\ calls' = Append(calls, Call("create_report_doc", outcome))
    /\ IF outcome = "returned"
       THEN /\ doc_id' = "doc-1"
            /\ doc' = _build_table_style_report(report, items)
       ELSE /\ doc_id' = None
            /\ doc' = doc
    /\ pc' = "mark"
    /\ UNCHANGED <<retry_vars, messages, items, items0, sorted_items, pos, seen_topics,
                   unique_items, decisions, merges, report, preview, text_vars,
                   config, model, attempts, last_error, response_text,
                   review_feedback, shortcut_path, state, run_result, exception>>

\* variant: the exception of create_report_doc leaves run
CreateReportDoc_propagates(outcome) ==
    /\ pc = "deliver"
    /\ report.items # <<>>
    /\ ~config.dry_run
    /\ calls' = Append(calls, Call("create_report_doc", outcome))
    /\ IF outcome = "returned"
       THEN /\ doc_id' = "doc-1"
            /\ doc' = _build_table_style_report(report, items)
            /\ pc' = "mark"
       ELSE /\ doc_id' = doc_id
            /\ doc' = doc
            /\ pc' = "failed"
    /\ UNCHANGED <<retry_vars, messages, items, items0, sorted_items, pos, seen_topics,
                   unique_items, decisions, merges, report, preview, text_vars,
                   config, model, attempts, last_error, response_text,
                   review_feedback, shortcut_path, state, run_result, exception>>

\* `elif not dry_run`: create_report_doc returns the id of the new document,
\* or raises and the outer `except` logs the error and sets doc_id = None
CreateReportDoc(outcome) ==
    /\ pc = "deliver"
    /\ report.items # <<>>
    /\ ~config.dry_run
    /\ calls' = Append(calls, Call("create_report_doc", outcome))
    /\ IF outcome = "returned"
       THEN /\ doc_id' = "doc-1"
            /\ doc' = _build_table_style_report(report, items)
            /\ pc' = "mark"
       ELSE /\ doc_id' = None
            /\ doc' = doc
            /\ pc' = "save"
    /\ UNCHANGED <<retry_vars, messages, items, items0, sorted_items, pos, seen_topics,
                   unique_items, decisions, merges, report, preview, text_vars,
                   config, model, attempts, last_error, response_text,
                   review_feedback, shortcut_path, state, run_result, exception>>

\* message_ids, and mark_as_read if there are any; its exception is caught
\* by the inner `except` and logged
MarkAsRead(outcome) ==
    /\ pc = "mark"
    /\ LET ids_of_messages == [k \in DOMAIN messages |-> k]
       IN IF ids_of_messages # <<>>
          THEN calls' = Append(calls, Call("mark_as_read", outcome))
          ELSE calls' = calls
    /\ pc' = "shortcut"
    /\ UNCHANGED <<retry_vars, analysis_vars, text_vars, config, model, attempts,
                   last_error, response_text, review_feedback, doc_id,
                   shortcut_path, state, run_result, exception>>

\* `if self._app_config.shortcut.enabled and doc_id` does not hold
NoShortcut ==
    /\ pc = "shortcut"
    /\ ~(config.shortcut_enabled /\ doc_id \notin {None, ""})
    /\ pc' = "save"
    /\ UNCHANGED <<retry_vars, analysis_vars, text_vars, run_vars>>

\* create_doc_shortcut returns the path, or raises and the outer `except`
\* logs the error and sets doc_id = None
CreateDocShortcut(outcome) ==
    /\ pc = "shortcut"
    /\ config.shortcut_enabled /\ doc_id \notin {None, ""}
    /\ calls' = Append(calls, Call("create_doc_shortcut", outcome))
    /\ IF outcome = "returned"
       THEN shortcut_path' = "Newsletter Report.webloc" /\ doc_id' = doc_id
       ELSE shortcut_path' = shortcut_path /\ doc_id' = None
    /\ pc' = "save"
    /\ UNCHANGED <<retry_vars, analysis_vars, text_vars, config, model, attempts,
                   last_error, response_text, review_feedback, state,
                   run_result, exception>>

\* the state is updated and saved, and run returns
SaveState ==
    /\ pc = "save"
    /\ state' = Only({IF review_feedback # None
                      THEN Put(updated, "last_review", review_feedback[1])
                      ELSE updated :
                      updated \in {Put(Put(Put(Put(Put(state,
                                     "last_run", now),
                                     "window_start", window_start),
                                     "window_end", window_end),
                                     "last_doc_id", doc_id),
                                     "last_count", Len(messages))}})
    /\ calls' = Append(calls, Call("_save_state", "returned"))
    /\ run_result' = [doc_id |-> doc_id,
                      shortcut_path |-> shortcut_path,
                      items |-> Len(messages),
                      review |-> review_feedback,
                      state |-> state']
    /\ pc' = "finished"
    /\ UNCHANGED <<retry_vars, analysis_vars, text_vars, config, model, attempts,
                   last_error, response_text, review_feedback, doc_id,
                   shortcut_path, exception>>

PipelineNext ==
    \/ AnalyzeBegin
    \/ DedupKeepNoKey
    \/ DedupMerge
    \/ DedupKeep
    \/ \E include_exec_summary \in BOOLEAN : AnalyzeReturn(include_exec_summary)
    \/ NothingToReview
    \/ ReviewDocumentText
    \/ ReviewDisabled
    \/ \E outcome \in Outcomes : GenerateContent(outcome)
    \/ VariantsExhausted
    \/ RaiseLastError
    \/ ParseResponse
    \/ ReviewError
    \/ NothingToDeliver
    \/ DryRun
    \/ \E outcome \in {"returned", "raised"} : CreateReportDoc(outcome)
    \/ \E outcome \in {"returned", "raised"} : MarkAsRead(outcome)
    \/ NoShortcut
    \/ \E outcome \in {"returned", "raised"} : CreateDocShortcut(outcome)
    \/ SaveState

PipelineSpec == RunInit /\ [][PipelineNext]_vars


(***************************************************************************)
(* gmail_agent.py: the retry loops of fetch_messages and mark_as_read      *)
(*                                                                         *)
(* pc is "enter" before the first loop, "call" at the `try` of an attempt, *)
(* "sleep" in the `except` clause of an attempt that is not the last,      *)
(* "break" after execute() has returned, "returned" and "raised" when the  *)
(* function is left.  executed and slept count the execute() and the       *)
(* time.sleep() calls of the loop that is running.                         *)
(***************************************************************************)
max_retries == 10

\* the exceptions of the `except` clause ...
Retryable == {"HttpError", "TimeoutError", "OSError"}

\* ... and exceptions of execute() that it does not name
NotRetryable == {"RefreshError", "ServerNotFoundError"}

ExecuteOutcomes == {"returned"} \cup Retryable \cup NotRetryable

\* response.get("messages", []) of the list call; the ids of mark_as_read
IdLists == {[k \in 1..n |-> k] : n \in 0..MaxIds}

\* min(2 ** attempt, 60), in seconds
base_wait(k) == IF 2 ^ k <= 60 THEN 2 ^ k ELSE 60

\* what random.random() returns, in percent: the ends and the middle
RandomValues == {0, 50, 100}

\* random.uniform(0, base_wait * 0.3), in milliseconds
uniform(base, random) == (300 * base * random) \div 100

NoAnalysis ==
    /\ messages = <<>>
    /\ items = <<>>
    /\ items0 = <<>>
    /\ sorted_items = <<>>
    /\ pos = 0
    /\ seen_topics = <<>>
    /\ unique_items = <<>>
    /\ decisions = <<>>
    /\ merges = <<>>
    /\ report = None
    /\ preview = None
    /\ doc = None

\* fetch_messages is entered (no ids yet), or mark_as_read with its ids
RetryInit ==
    /\ pc = "enter"
    /\ api_call \in {"list", "batchModify"}
    /\ message_ids \in (IF api_call = "batchModify" THEN IdLists ELSE {<<>>})
    /\ got = 0
    /\ attempt = 0
    /\ executed = 0
    /\ slept = 0
    /\ wait_time = None
    /\ caught = None
    /\ raised = None
    /\ NoAnalysis
    /\ NoText
    /\ NoRun

\* the head of a retry loop: `for attempt in range(max_retries)`
StartLoop(call) ==
    /\ api_call' = call
    /\ attempt' = 0
    /\ executed' = 0
    /\ slept' = 0
    /\ wait_time' = None
    /\ caught' = None
    /\ pc' = "call"

\* mark_as_read: `if not message_ids: return`
MarkNothing ==
    /\ pc = "enter"
    /\ api_call = "batchModify"
    /\ message_ids = <<>>
    /\ pc' = "returned"
    /\ UNCHANGED <<analysis_vars, text_vars, run_vars, retry_vars>>

\* credentials and service are built and the first loop is entered
BuildService ==
    /\ pc = "enter"
    /\ api_call = "list" \/ message_ids # <<>>
    /\ StartLoop(api_call)
    /\ UNCHANGED <<analysis_vars, text_vars, run_vars, message_ids, got, raised>>

\* variant: every exception is retried
Execute_retries_every_exception(outcome) ==
    /\ pc = "call"
    /\ executed' = executed + 1
    /\ IF outcome = "returned"
       THEN /\ pc' = "break"
            /\ UNCHANGED <<caught, raised>>
       ELSE /\ caught' = outcome
            /\ IF attempt < max_retries - 1
               THEN pc' = "sleep" /\ raised' = raised
               ELSE pc' = "raised" /\ raised' = outcome
    /\ UNCHANGED <<analysis_vars, text_vars, run_vars, api_call, message_ids,
                   got, attempt, slept, wait_time>>

\* one attempt: execute() returns and the loop is left by `break`, or it
\* raises; an exception of the `except` clause is followed by a sleep if
\* the attempt is not the last and raised again if it is, any other
\* exception leaves the function
Execute(outcome) ==
    /\ pc = "call"
    /\ executed' = executed + 1
    /\ IF outcome = "returned"
       THEN /\ pc' = "break"
            /\ UNCHANGED <<caught, raised>>
       ELSE /\ caught' = outcome
            /\ IF outcome \in Retryable /\ attempt < max_retries - 1
               THEN pc' = "sleep" /\ raised' = raised
               ELSE pc' = "raised" /\ raised' = outcome
    /\ UNCHANGED <<analysis_vars, text_vars, run_vars, api_call, message_ids,
                   got, attempt, slept, wait_time>>

\* time.sleep(base_wait + jitter), and the next attempt
Sleep(random) ==
    /\ pc = "sleep"
    /\ wait_time' = Some([attempt |-> attempt, base_wait |-> base_wait(attempt),
                          jitter |-> uniform(base_wait(attempt), random)])
    /\ slept' = slept + 1
    /\ attempt' = attempt + 1
    /\ pc' = "call"
    /\ UNCHANGED <<analysis_vars, text_vars, run_vars, api_call, message_ids,
                   got, executed, caught, raised>>

\* the list call has returned: the ids of the response, and the loop of
\* the first message if there is one
ListReturned(ids) ==
    /\ pc = "break"
    /\ api_call = "list"
    /\ message_ids' = ids
    /\ got' = 0
    /\ IF ids # <<>>
       THEN StartLoop("get")
       ELSE /\ pc' = "returned"
            /\ UNCHANGED <<api_call, attempt, executed, slept, wait_time, caught>>
    /\ UNCHANGED <<analysis_vars, text_vars, run_vars, raised>>

\* a get call has returned: the message is parsed and appended, and the
\* loop of the next message is entered if there is one
GetReturned ==
    /\ pc = "break"
    /\ api_call = "get"
    /\ got' = got + 1
    /\ IF got + 1 < Len(message_ids)
       THEN StartLoop("get")
       ELSE /\ pc' = "returned"
            /\ UNCHANGED <<api_call, attempt, executed, slept, wait_time, caught>>
    /\ UNCHANGED <<analysis_vars, text_vars, run_vars, message_ids, raised>>

\* batchModify has returned and mark_as_read returns
BatchModifyReturned ==
    /\ pc = "break"
    /\ api_call = "batchModify"
    /\ pc' = "returned"
    /\ UNCHANGED <<analysis_vars, text_vars, run_vars, retry_vars>>

RetryNext ==
    \/ MarkNothing
    \/ BuildService
    \/ \E outcome \in ExecuteOutcomes : Execute(outcome)
    \/ \E random \in RandomValues : Sleep(random)
    \/ \E ids \in IdLists : ListReturned(ids)
    \/ GetReturned
    \/ BatchModifyReturned

RetrySpec == RetryInit /\ [][RetryNext]_vars


(***************************************************************************)
(* Properties                                                              *)
(***************************************************************************)
\* the ranks high=0, medium=1, low=2, anything else 2
ClaimRank(priority) ==
    IF priority = "high" THEN 0 ELSE IF priority = "medium" THEN 1 ELSE 2

\* analyze has returned its Report
Returned == pc \in {"report", "preview", "done"}

PosIn(seq, x) == CHOOSE k \in DOMAIN seq : seq[k] = x

NonDecreasingRank(seq) ==
    \A a, b \in DOMAIN seq :
        a < b => ClaimRank(items[seq[a]].priority) <= ClaimRank(items[seq[b]].priority)

KeyOf(i) == key_words(items[i].topic)

\* |A \cap B| >= 2 and |A \cap B| / min(|A|, |B|) >= 0.50
MinRatioRule(A, B) ==
    LET c == Cardinality(A \cap B)
        m == IF Cardinality(A) <= Cardinality(B) THEN Cardinality(A) ELSE Cardinality(B)
    IN c >= 2 /\ 2 * c >= m

\* |A \cap B| >= 2 and |A \cap B| / |A| >= 0.40, A the candidate's set
CandidateRatioRule(A, B) ==
    LET c == Cardinality(A \cap B)
    IN c >= 2 /\ 5 * c >= 2 * Cardinality(A)

\* C1 as stated: every comparison made by _deduplicate_items decides
\* "duplicate" exactly when the sets share at least 2 words and the shared
\* words are at least 50% of the smaller set.
C1_MinRatioDecision ==
    \A k \in DOMAIN decisions :
        decisions[k].dup = MinRatioRule(decisions[k].key_words, decisions[k].seen_key)

\* C1 amended: every comparison made by _deduplicate_items decides
\* "duplicate" exactly when the sets share at least 2 words and the shared
\* words are at least 40% of the candidate's set; an item is merged exactly
\* into an item the comparison declared it a duplicate of.
C1_CandidateRatioDecision ==
    /\ \A k \in DOMAIN decisions :
          decisions[k].dup =
              CandidateRatioRule(decisions[k].key_words, decisions[k].seen_key)
    /\ \A k \in DOMAIN merges :
          /\ CandidateRatioRule(KeyOf(merges[k].dup), KeyOf(merges[k].kept))
          /\ \E h \in DOMAIN decisions :
                /\ decisions[h].cand = merges[k].dup
                /\ decisions[h].seen_item = merges[k].kept
                /\ decisions[h].dup

\* a comparison at exactly 40% of the candidate's words (2 of 5), where the
\* two rules disagree, has been decided "duplicate" and merged
C1_Witness ==
    \E k \in DOMAIN merges :
        /\ Cardinality(KeyOf(merges[k].dup)) = 5
        /\ Cardinality(KeyOf(merges[k].dup) \cap KeyOf(merges[k].kept)) = 2
        /\ ~MinRatioRule(KeyOf(merges[k].dup), KeyOf(merges[k].kept))

\* C2: whenever item d is merged into kept item k, k's priority rank is at
\* most d's, whatever the input order; the kept items, and the items of the
\* returned report, are in non-decreasing priority rank.
C2_KeptHasBestPriority ==
    /\ \A k \in DOMAIN merges :
          ClaimRank(items[merges[k].kept].priority)
              <= ClaimRank(items[merges[k].dup].priority)
    /\ NonDecreasingRank(unique_items)
    /\ Returned => NonDecreasingRank(report.items)

\* a lower-priority item that came first in the input has been merged into
\* a higher-priority item that came later, and the report is returned
C2_Witness ==
    /\ Returned
    /\ \E k \in DOMAIN merges :
          /\ merges[k].dup < merges[k].kept
          /\ ClaimRank(items[merges[k].kept].priority)
                < ClaimRank(items[merges[k].dup].priority)

\* the kept items processed before d that match d
MatchingKept(d) ==
    {u \in Range(unique_items) :
        /\ PosIn(sorted_items, u) < PosIn(sorted_items, d)
        /\ KeyOf(u) # {}
        /\ IsDuplicate(KeyOf(d), KeyOf(u))}

\* C3: a merged item went into the earliest-kept of the kept items it
\* matches; it is merged once, and its sources are found in that item and in
\* no other.
C3_FirstMatchWins ==
    /\ \A k \in DOMAIN merges :
          LET d == merges[k].dup
              t == merges[k].kept
          IN /\ t \in MatchingKept(d)
             /\ \A u \in MatchingKept(d) :
                   PosIn(sorted_items, t) <= PosIn(sorted_items, u)
             /\ \A u \in DOMAIN items \ {d} :
                   (\E x \in DOMAIN items0[d].sources :
                       items0[d].sources[x] \in Range(items[u].sources)) <=> u = t
    /\ \A k, h \in DOMAIN merges : merges[k].dup = merges[h].dup => k = h

\* an item that matches two kept items has been merged
C3_Witness ==
    \E k \in DOMAIN merges : Cardinality(MatchingKept(merges[k].dup)) >= 2


IsPrefix(a, b) == Len(a) <= Len(b) /\ SubSeq(b, 1, Len(a)) = a

WithoutSources(item) == [item EXCEPT !.sources = <<>>]

\* C4: once the items are built, a step changes no item except by appending
\* to the source list of the item a merge keeps: topic, summary, priority,
\* category, tags and flags stay, and the sources already present stay in
\* place at the front.
C4_MergeOnlyAppendsSources ==
    [][pc # "fetch" =>
          /\ DOMAIN items' = DOMAIN items
          /\ \A i \in DOMAIN items :
                /\ WithoutSources(items'[i]) = WithoutSources(items[i])
                /\ IsPrefix(items[i].sources, items'[i].sources)
                /\ items'[i].sources # items[i].sources =>
                      /\ Len(merges') = Len(merges) + 1
                      /\ merges'[Len(merges')].kept = i]_vars

\* one kept item has absorbed two duplicates, one after the other
C4_Witness ==
    \E i \in DOMAIN items :
        /\ Cardinality({k \in DOMAIN merges : merges[k].kept = i}) >= 2
        /\ Len(items[i].sources) >= Len(items0[i].sources) + 2

\* C5 as stated: a source that a merge added to an item never repeats a
\* sender name that the item already lists.
C5_NoSenderTwiceByMerge ==
    \A i \in DOMAIN items :
        \A b \in (Len(items0[i].sources) + 1)..Len(items[i].sources) :
            \A a \in 1..(b - 1) :
                items[i].sources[a].sender # items[i].sources[b].sender

\* the sources of the first n merges that went into item i, in merge order
RECURSIVE MergedInto(_, _)
MergedInto(i, n) ==
    IF n = 0 THEN <<>>
    ELSE MergedInto(i, n - 1)
         \o (IF merges[n].kept = i THEN items0[merges[n].dup].sources ELSE <<>>)

\* C5 amended: a merge appends all the sources of the duplicate to the kept
\* item, whether or not their sender is already listed there: every item's
\* sources are its own followed by those of the items merged into it.
C5_AllSourcesAppended ==
    \A i \in DOMAIN items :
        items[i].sources = items0[i].sources \o MergedInto(i, Len(merges))

\* a merge has added a source whose sender the kept item already listed,
\* and the kept item now lists that sender twice
C5_Witness ==
    \E k \in DOMAIN merges :
        LET kept == items[merges[k].kept].sources
        IN \E a, b \in DOMAIN kept :
              /\ a < b
              /\ a <= Len(items0[merges[k].kept].sources)
              /\ kept[b] \in Range(items0[merges[k].dup].sources)
              /\ kept[a].sender = kept[b].sender

TopicsOf(seq) == {items[seq[k]].topic : k \in DOMAIN seq}

\* C6: every merge joins two items that share at least 2 significant words;
\* "ai news roundup" and "ai funding update", when both are items, are both
\* in the report with their own sources only.
C6_FewerThanTwoCommonNeverMerged ==
    /\ \A k \in DOMAIN merges :
          Cardinality(KeyOf(merges[k].dup) \cap KeyOf(merges[k].kept)) >= 2
    /\ Returned =>
          \A i, j \in DOMAIN items :
              items[i].topic = "ai news roundup" /\ items[j].topic = "ai funding update"
                  => /\ i \in Range(report.items) /\ j \in Range(report.items)
                     /\ items[i].sources = items0[i].sources
                     /\ items[j].sources = items0[j].sources

\* the report holds both example items and two items whose single
\* significant word is the same (overlap ratio 1 with one common word)
C6_Witness ==
    /\ Returned
    /\ {"ai news roundup", "ai funding update"} \subseteq TopicsOf(report.items)
    /\ \E i, j \in Range(report.items) :
          i # j /\ KeyOf(i) = KeyOf(j) /\ Cardinality(KeyOf(i)) = 1

\* C7: an item without significant words is never part of a merge, and it
\* is in the returned report exactly once with the sources it was built with.
C7_EmptyKeyKeptAsIs ==
    \A i \in DOMAIN items :
        KeyOf(i) = {} =>
            /\ \A k \in DOMAIN merges : merges[k].dup # i /\ merges[k].kept # i
            /\ items[i].sources = items0[i].sources
            /\ Returned =>
                  Cardinality({k \in DOMAIN report.items : report.items[k] = i}) = 1

\* a report was returned for an item without significant words and other
\* items of which one was merged
C7_Witness ==
    /\ Returned
    /\ merges # <<>>
    /\ \E i \in DOMAIN items : KeyOf(i) = {}

\* the messages an item was built from
GroupOf(i) == [k \in DOMAIN items0[i].sources |-> items0[i].sources[k].email_link]

\* the number of keywords of each non-general category, in precedence
\* order, found in the lowercased text of the item's messages
ScoresOf(i) ==
    LET text_lower == lower(CombinedText(messages, GroupOf(i)))
    IN <<KeywordScore("new_models", text_lower), KeywordScore("research", text_lower),
         KeywordScore("robots", text_lower), KeywordScore("funding", text_lower),
         KeywordScore("apps", text_lower)>>

Precedence == <<"new_models", "research", "robots", "funding", "apps">>

\* C8: the category of a built item is "general" exactly when all five
\* scores are zero; otherwise it is a category whose score is the largest
\* and is larger than the score of every category before it in the order
\* new_models, research, robots, funding, apps.
C8_FirstMaximalCategory ==
    pc # "fetch" =>
        \A i \in DOMAIN items0 :
            LET scores == ScoresOf(i)
                category == items0[i].category
            IN /\ category = "general" <=> \A c \in 1..5 : scores[c] = 0
               /\ category # "general" =>
                     \E c \in 1..5 :
                         /\ Precedence[c] = category
                         /\ \A d \in 1..5 : scores[d] <= scores[c]
                         /\ \A d \in 1..(c - 1) : scores[d] < scores[c]

\* an item was built whose largest score is shared by two categories and
\* whose category is the earlier of the two
C8_Witness ==
    /\ pc # "fetch"
    /\ \E i \in DOMAIN items0 :
          LET scores == ScoresOf(i)
          IN \E c, d \in 1..5 :
                /\ c < d
                /\ scores[c] = scores[d] /\ scores[c] >= 1
                /\ \A x \in 1..5 : scores[x] <= scores[c]
                /\ items0[i].category = Precedence[c]

\* C9 as stated: high exactly for funding-tagged items and items with
\* company news; otherwise medium exactly for AI/ML-tagged items and the
\* categories research and robots; otherwise low.
C9_TagsAndCompanyNewsTable ==
    pc # "fetch" =>
        \A i \in DOMAIN items0 :
            LET it == items0[i]
            IN it.priority =
                 IF "funding" \in it.tags \/ it.has_company_news THEN "high"
                 ELSE IF "ai" \in it.tags \/ it.category \in {"research", "robots"}
                      THEN "medium"
                      ELSE "low"

\* C9 amended: high exactly for funding-tagged items, items with company
\* news and the categories funding and new_models; otherwise medium exactly
\* for AI/ML-tagged items and the categories research and robots; otherwise
\* low.
C9_TableWithHighCategories ==
    pc # "fetch" =>
        \A i \in DOMAIN items0 :
            LET it == items0[i]
            IN it.priority =
                 IF \/ "funding" \in it.tags
                    \/ it.has_company_news
                    \/ it.category \in {"funding", "new_models"}
                 THEN "high"
                 ELSE IF "ai" \in it.tags \/ it.category \in {"research", "robots"}
                      THEN "medium"
                      ELSE "low"

\* an item of category new_models that has neither the funding tag nor
\* company news nor the ai tag was built with priority high
C9_Witness ==
    /\ pc # "fetch"
    /\ \E i \in DOMAIN items0 :
          /\ items0[i].category = "new_models"
          /\ "funding" \notin items0[i].tags
          /\ "ai" \notin items0[i].tags
          /\ ~items0[i].has_company_news
          /\ items0[i].priority = "high"

DisplayOrder == <<"new_models", "research", "robots", "funding", "apps", "general">>

ItemLines(r) == {k \in DOMAIN r : r[k].kind = "item"}

CategoryLines(r) == {k \in DOMAIN r : r[k].kind = "category"}

\* the category heading under which line k of a rendering stands
HeadingOf(r, k) ==
    CHOOSE c \in CategoryLines(r) :
        c < k /\ \A d \in CategoryLines(r) : d < k => d <= c

\* the property of C10 for one rendering r of the report
RenderingOrdered(r) ==
    /\ \A k \in ItemLines(r) : r[k].item \in Range(report.items)
    /\ \A n \in DOMAIN report.items :
          Cardinality({k \in ItemLines(r) : r[k].item = report.items[n]}) = 1
    /\ \A k \in ItemLines(r) :
          /\ \E c \in CategoryLines(r) : c < k
          /\ r[HeadingOf(r, k)].cat_id = items[r[k].item].category
    /\ \A a, b \in CategoryLines(r) :
          a < b => PosIn(DisplayOrder, r[a].cat_id) < PosIn(DisplayOrder, r[b].cat_id)
    /\ \A a, b \in ItemLines(r) :
          a < b /\ items[r[a].item].category = items[r[b].item].category =>
              LET ra == ClaimRank(items[r[a].item].priority)
                  rb == ClaimRank(items[r[b].item].priority)
              IN \/ ra < rb
                 \/ /\ ra = rb
                    /\ PosIn(report.items, r[a].item) < PosIn(report.items, r[b].item)

\* C10: in the review preview and in the text of the final document, every
\* item of the report stands exactly once, under the heading of its own
\* category; the headings follow the order new_models, research, robots,
\* funding, apps, general; under one heading high items stand before medium
\* and medium before low, and items of equal priority stand in the order of
\* Report.items.
C10_RenderingsGroupedAndOrdered ==
    /\ pc \in {"preview", "done"} => RenderingOrdered(preview)
    /\ pc = "done" => RenderingOrdered(doc)

\* both renderings exist, one category holds a high, a medium and a low
\* item, and the messages did not arrive in that order
C10_Witness ==
    /\ pc = "done"
    /\ \E a, b, c \in ItemLines(doc) :
          /\ a < b /\ b < c
          /\ items[doc[a].item].category = items[doc[b].item].category
          /\ items[doc[b].item].category = items[doc[c].item].category
          /\ items[doc[a].item].priority = "high"
          /\ items[doc[b].item].priority = "medium"
          /\ items[doc[c].item].priority = "low"
          /\ doc[a].item > doc[c].item
          /\ {a, b, c} \subseteq ItemLines(preview)

\* C11 as stated: Report.items is grouped by category in the display order
\* and, inside a category, ordered by priority with ties in extraction
\* order (the index of an item is its extraction order).
C11_ItemsGroupedByCategory ==
    Returned =>
        \A a, b \in DOMAIN report.items :
            a < b =>
                LET x == items[report.items[a]]
                    y == items[report.items[b]]
                    cx == PosIn(DisplayOrder, x.category)
                    cy == PosIn(DisplayOrder, y.category)
                IN \/ cx < cy
                   \/ /\ cx = cy
                      /\ \/ ClaimRank(x.priority) < ClaimRank(y.priority)
                         \/ /\ ClaimRank(x.priority) = ClaimRank(y.priority)
                            /\ report.items[a] < report.items[b]

\* C11 amended: Report.items is ordered by priority alone (high, medium,
\* low) with ties in extraction order, whatever the categories; items of
\* one category need not be adjacent.
C11_ItemsOrderedByPriorityOnly ==
    Returned =>
        \A a, b \in DOMAIN report.items :
            a < b =>
                LET x == items[report.items[a]]
                    y == items[report.items[b]]
                IN \/ ClaimRank(x.priority) < ClaimRank(y.priority)
                   \/ /\ ClaimRank(x.priority) = ClaimRank(y.priority)
                      /\ report.items[a] < report.items[b]

\* a returned report in which an item of a later category stands before an
\* item of an earlier category, and two items of one category are separated
\* by an item of another
C11_Witness ==
    /\ Returned
    /\ \E a, b \in DOMAIN report.items :
          /\ a < b
          /\ PosIn(DisplayOrder, items[report.items[a]].category)
                > PosIn(DisplayOrder, items[report.items[b]].category)
    /\ \E a, b, c \in DOMAIN report.items :
          /\ a < b /\ b < c
          /\ items[report.items[a]].category = items[report.items[c]].category
          /\ items[report.items[a]].category # items[report.items[b]].category

CategoryOfName(name) == CHOOSE c \in Range(DisplayOrder) : name_en(c) = name

RECURSIVE SumCounts(_)
SumCounts(parts) ==
    IF parts = <<>> THEN 0 ELSE Head(parts).count + SumCounts(Tail(parts))

\* C12: a summary computed for a report with items states as total the
\* number of report items; it has one count for each category that has
\* report items and for no other, each equal to the number of report items
\* of that category, in the display order; the counts add up to the total.
C12_SummaryCountsReportItems ==
    Returned /\ report.executive_summary_en.kind # "off" /\ report.items # <<>> =>
        LET summary == report.executive_summary_en
            parts   == summary.parts
        IN /\ summary.kind = "counts"
           /\ summary.total = Len(report.items)
           /\ \A a, b \in DOMAIN parts :
                 a < b => PosIn(DisplayOrder, CategoryOfName(parts[a].name))
                            < PosIn(DisplayOrder, CategoryOfName(parts[b].name))
           /\ \A a \in DOMAIN parts :
                 /\ parts[a].count >= 1
                 /\ parts[a].count =
                       Cardinality({k \in DOMAIN report.items :
                           items[report.items[k]].category = CategoryOfName(parts[a].name)})
           /\ \A k \in DOMAIN report.items :
                 \E a \in DOMAIN parts :
                     CategoryOfName(parts[a].name) = items[report.items[k]].category
           /\ SumCounts(parts) = summary.total

\* a summary was computed after a merge: it names two categories and its
\* total is smaller than the number of items built
C12_Witness ==
    /\ Returned
    /\ report.executive_summary_en.kind = "counts"
    /\ merges # <<>>
    /\ Len(report.executive_summary_en.parts) >= 2
    /\ report.executive_summary_en.total < Len(items)

\* C13: the analysis of any single message, one with an empty subject, body
\* and snippet included, returns exactly one item, and the topic and the
\* summary of that item are not empty.
C13_OneItemWithTopicAndSummary ==
    (Returned /\ Len(messages) = 1) =>
        /\ Len(report.items) = 1
        /\ items[report.items[1]].topic # ""
        /\ items[report.items[1]].summary # ""

\* the report of a message without subject, body or snippet: its item is
\* named "(no subject)" and summarised "(sin resumen)"
C13_Witness ==
    /\ Returned
    /\ Len(messages) = 1
    /\ strip(messages[1].subject) = ""
    /\ messages[1].body_text = ""
    /\ messages[1].snippet = ""
    /\ Len(report.items) = 1
    /\ items[report.items[1]].topic = "(no subject)"
    /\ items[report.items[1]].summary = "(sin resumen)"

\* the headlines of the scenario
FundingHeadline == "Series B funding round for Acme AI"

RobotHeadline == "New robot unveiled by Boston Dynamics"

FundingScenario ==
    /\ Len(messages) = 3
    /\ \E a, b, c \in 1..3 :
          /\ {a, b, c} = 1..3
          /\ messages[a].subject = FundingHeadline
          /\ messages[b].subject = FundingHeadline
          /\ messages[a].sender # messages[b].sender
          /\ messages[c].subject = RobotHeadline

SendersOf(item) == {item.sources[k].sender : k \in DOMAIN item.sources}

\* C14: for three messages, two from different senders both headed "Series B
\* funding round for Acme AI" and one headed "New robot unveiled by Boston
\* Dynamics", the report has exactly two items: one of category funding and
\* priority high whose sources hold both senders, and one of category robots.
C14_FundingScenarioTwoItems ==
    (Returned /\ FundingScenario) =>
        /\ Len(report.items) = 2
        /\ \E f, r \in 1..2 :
              LET funding == items[report.items[f]]
                  robots  == items[report.items[r]]
              IN /\ f # r
                 /\ funding.category = "funding"
                 /\ funding.priority = "high"
                 /\ SendersOf(funding) =
                      {messages[k].sender :
                          k \in {k \in 1..3 : messages[k].subject = FundingHeadline}}
                 /\ Cardinality(SendersOf(funding)) = 2
                 /\ robots.category = "robots"

\* the report of the three messages of the scenario
C14_Witness ==
    /\ Returned
    /\ FundingScenario
    /\ Len(report.items) = 2
    /\ \E f \in 1..2 : Len(items[report.items[f]].sources) = 2

\* C15: normalization is idempotent: _clean_text and _html_to_clean_text
\* applied to their own result return it unchanged.
C15_NormalizationIdempotent ==
    pc \in {"recleaned", "html_recleaned"} => twice = once

\* C16: a footer marker before the first 30% of the text discards nothing,
\* and a footer marker at or after 30% discards all the text after it.
PlainWithOneMarker ==
    /\ \A k \in DOMAIN fragments : fragments[k] \in Sentences \cup FooterMarkers
    /\ Cardinality({k \in DOMAIN fragments : fragments[k] \in FooterMarkers}) = 1

MarkerIndex == CHOOSE k \in DOMAIN fragments : fragments[k] \in FooterMarkers

BeforeMarker == join("", SubSeq(fragments, 1, MarkerIndex - 1))

\* the marker starts before 30% of the length of the text
MarkerEarly == 10 * Len(BeforeMarker) < 3 * Len(Text)

RECURSIVE Surviving(_, _, _)
Surviving(fs, k, open) ==
    IF k > Len(fs) THEN <<>>
    ELSE IF fs[k] = "unsubscribe " THEN Surviving(fs, k + 1, TRUE)
    ELSE IF fs[k] \in FooterMarkers \/ open THEN Surviving(fs, k + 1, FALSE)
    ELSE <<strip(fs[k])>> \o Surviving(fs, k + 1, FALSE)

CallsOf(name) == {k \in DOMAIN calls : calls[k].name = name}

\* generate_content of the k-th attempt has raised
AttemptFailed(k) == attempts[k].outcome.kind = "error"

\* ... with a quota-exhaustion or a not-found error
AttemptSkipped(k) ==
    AttemptFailed(k) /\ attempts[k].outcome.value.kind \in {"quota", "not_found"}

C18_ReviewInformativeOnly ==
    /\ pc # "failed"
    /\ Cardinality(CallsOf("create_report_doc")) <= 1
    /\ (pc = "finished" /\ report.items # <<>> /\ ~config.dry_run) =>
          Cardinality(CallsOf("create_report_doc")) = 1

\* every variant has raised, the review has answered with the error and
\* the document has been created all the same
C18_Witness ==
    /\ pc = "finished"
    /\ Len(attempts) = 3
    /\ review_feedback # None
    /\ review_feedback[1].summary = "Could not complete review"
    /\ ~review_feedback[1].is_good
    /\ CallsOf("create_report_doc") # {}
    /\ doc_id = "doc-1"

\* C19: mark_as_read is called at most once in a run, and only after
\* create_report_doc has returned in that run: never in a dry run, never
\* for a report without items, never after create_report_doc has raised.
C19_MarkOnlyAfterCreate ==
    /\ Cardinality(CallsOf("mark_as_read")) <= 1
    /\ \A k \in CallsOf("mark_as_read") :
          \E j \in 1..(k - 1) : calls[j] = Call("create_report_doc", "returned")
    /\ config.dry_run => CallsOf("mark_as_read") = {}
    /\ (pc \notin {"fetch", "dedup"} /\ report.items = <<>>) => CallsOf("mark_as_read") = {}
    /\ (\E j \in DOMAIN calls : calls[j] = Call("create_report_doc", "raised")) =>
          CallsOf("mark_as_read") = {}

\* a run that has created the document and then marked the emails
C19_Witness ==
    /\ pc = "finished"
    /\ \E k \in CallsOf("mark_as_read") :
          /\ k > 1
          /\ calls[k - 1] = Call("create_report_doc", "returned")

CreateFailed == \E k \in DOMAIN calls : calls[k] = Call("create_report_doc", "raised")

\* C20: after create_report_doc has raised, run goes on to save the state
\* and returns: the state written has last_doc_id None, last_count the
\* number of fetched messages and the bounds of the window, and the
\* result has doc_id None.
C20_CreateFailureContained ==
    CreateFailed =>
        /\ pc \in {"save", "finished"}
        /\ doc_id = None
        /\ pc = "finished" =>
              /\ calls[Len(calls)] = Call("_save_state", "returned")
              /\ state["last_doc_id"] = None
              /\ state["last_count"] = Len(messages)
              /\ state["window_start"] = window_start
              /\ state["window_end"] = window_end
              /\ run_result.doc_id = None
              /\ run_result.state = state

\* a run of two messages whose state file named a document before and
\* whose create_report_doc has raised
C20_Witness ==
    /\ CreateFailed
    /\ pc = "finished"
    /\ Len(messages) = 2
    /\ state["last_run"] = now
    /\ state["last_doc_id"] = None
    /\ "last_review" \in DOMAIN state

CreateReturned == \E k \in DOMAIN calls : calls[k] = Call("create_report_doc", "returned")

\* C21: once create_report_doc has returned in a run, the doc_id that run
\* returns and the last_doc_id it writes to the state are the id of the
\* created document, whether mark_as_read or create_doc_shortcut raise
\* afterwards or not.
C21_CreatedDocIdKept ==
    (CreateReturned /\ pc = "finished") =>
        /\ run_result.doc_id = "doc-1"
        /\ state["last_doc_id"] = "doc-1"

Analyzed == pc \notin {"fetch", "dedup"}

\* C22: when the analysis yields no report item, run calls none of
\* review_document_text, create_report_doc, mark_as_read and
\* create_doc_shortcut; it still saves the state, with last_doc_id None,
\* and returns doc_id None.
C22_NoItemsNoCalls ==
    (Analyzed /\ report.items = <<>>) =>
        /\ \A k \in DOMAIN calls : calls[k].name = "_save_state"
        /\ doc_id = None
        /\ review_feedback = None
        /\ pc = "finished" =>
              /\ calls = <<Call("_save_state", "returned")>>
              /\ state["last_doc_id"] = None
              /\ state["last_count"] = 0
              /\ run_result.doc_id = None
              /\ run_result.shortcut_path = None
              /\ run_result.state = state

\* a run with the review and the shortcut enabled, not a dry run, over an
\* empty mailbox, whose state file named the document of the run before
C22_Witness ==
    /\ pc = "finished"
    /\ report.items = <<>>
    /\ config.api_key
    /\ config.shortcut_enabled
    /\ ~config.dry_run
    /\ "last_review" \in DOMAIN state
    /\ state["last_run"] = now
    /\ state["last_doc_id"] = None
    /\ calls = <<Call("_save_state", "returned")>>

ExternalWrites == {"create_report_doc", "mark_as_read", "create_doc_shortcut"}

\* C23: in a dry run, run calls none of create_report_doc, mark_as_read
\* and create_doc_shortcut and returns doc_id None, whatever messages were
\* fetched and whatever the review has answered or raised.
C23_DryRunWritesNothing ==
    config.dry_run =>
        /\ \A k \in DOMAIN calls : calls[k].name \notin ExternalWrites
        /\ doc_id = None
        /\ shortcut_path = None
        /\ doc = None
        /\ pc = "finished" =>
              /\ run_result.doc_id = None
              /\ run_result.shortcut_path = None
              /\ state["last_doc_id"] = None

\* a dry run over two messages, with the shortcut enabled, whose review
\* has answered that the document has issues
C23_Witness ==
    /\ pc = "finished"
    /\ config.dry_run
    /\ config.shortcut_enabled
    /\ Len(messages) = 2
    /\ report.items # <<>>
    /\ review_feedback # None
    /\ ~review_feedback[1].is_good
    /\ CallsOf("review_document_text") # {}
    /\ run_result.doc_id = None

\* a dry run whose review has raised
C23_WitnessReviewError ==
    /\ pc = "finished"
    /\ config.dry_run
    /\ report.items # <<>>
    /\ review_feedback # None
    /\ review_feedback[1].summary = "Could not complete review"
    /\ run_result.doc_id = None

\* the places <<f, k>> of the report where message m is a source: source k
\* of report item f
PlacesOf(m) ==
    {place \in (DOMAIN report.items) \X (DOMAIN messages) :
        /\ place[2] \in DOMAIN items[report.items[place[1]]].sources
        /\ items[report.items[place[1]]].sources[place[2]].email_link = m}

RECURSIVE TotalSources(_)
TotalSources(item_list) ==
    IF item_list = <<>> THEN 0
    ELSE Len(items[Head(item_list)].sources) + TotalSources(Tail(item_list))

\* C24: every input message is a source of exactly one item of the report
\* that analyze returns, once, and the report items have as many sources
\* in all as there are input messages.
C24_EveryMessageOnce ==
    Returned =>
        /\ \A m \in DOMAIN messages : Cardinality(PlacesOf(m)) = 1
        /\ TotalSources(report.items) = Len(messages)

\* three messages: two with the same topic, grouped into one item, and a
\* third whose item was merged into that one
C24_Witness ==
    /\ Returned
    /\ Len(messages) = 3
    /\ Len(report.items) = 1
    /\ merges # <<>>
    /\ \E i \in DOMAIN items0 : Len(items0[i].sources) = 2

\* three messages, one item without key words, one merge
C24_WitnessNoKey ==
    /\ Returned
    /\ Len(messages) = 3
    /\ Len(report.items) = 2
    /\ merges # <<>>
    /\ \E f \in DOMAIN report.items : KeyOf(report.items[f]) = {}

C25_WitnessLastAttemptReturns ==
    /\ pc = "returned"
    /\ api_call = "batchModify"
    /\ executed = max_retries
    /\ slept = max_retries - 1

\* the list call has raised an exception that is not retried at its third
\* attempt
C25_WitnessNotRetried ==
    /\ pc = "raised"
    /\ api_call = "list"
    /\ raised \in NotRetryable
    /\ executed = 3
    /\ slept = 2

\* C26: in fetch_messages the base delay slept after failed attempt k is
\* 2^k seconds, for each of the ten attempts k = 0..9 (1s, 2s, ... 512s),
\* and the jitter added to it is at most 30% of that base delay.
C26_DelayDoublesEveryAttempt ==
    api_call \in {"list", "get"} =>
        /\ wait_time # None =>
              /\ wait_time[1].base_wait = 2 ^ wait_time[1].attempt
              /\ 10 * wait_time[1].jitter <= 3 * 1000 * wait_time[1].base_wait
        /\ (pc = "raised" /\ raised \in Retryable) =>
              /\ slept = max_retries
              /\ wait_time[1].base_wait = 512

\* what the code does: the base delay is 2^k seconds up to 32s and 60s
\* from the seventh failure on, the tenth failure is followed by no delay,
\* and the jitter is at most 30% of the base delay
C26_DelayCappedAtSixty ==
    api_call \in {"list", "get"} =>
        /\ wait_time # None =>
              /\ wait_time[1].attempt \in 0..(max_retries - 2)
              /\ wait_time[1].base_wait =
                    (IF wait_time[1].attempt <= 5 THEN 2 ^ wait_time[1].attempt ELSE 60)
              /\ 10 * wait_time[1].jitter <= 3 * 1000 * wait_time[1].base_wait
        /\ (pc = "raised" /\ raised \in Retryable) =>
              /\ slept = max_retries - 1
              /\ wait_time[1].attempt = max_retries - 2

\* the seventh attempt of a get has failed and 60 seconds and the largest
\* jitter have been slept
C26_WitnessCapped ==
    /\ pc = "call"
    /\ api_call = "get"
    /\ attempt = 7
    /\ wait_time = Some([attempt |-> 6, base_wait |-> 60, jitter |-> 18000])

====
